---------------------------- MODULE Spec2Model ----------------------------
(***************************************************************************)
(* A model of gglsbl, a client of the Google Safe Browsing v4 Update API:  *)
(* the SQLite cache (gglsbl/storage.py) and the update pass and URL lookup *)
(* of SafeBrowsingList (gglsbl/client.py).                                 *)
(*                                                                         *)
(* The cache is a record d = [threat_list, hash_prefix, full_hash]:        *)
(*   threat_list : function  stored ThreatList -> client_state (or NULL)   *)
(*   hash_prefix : set of rows [value, list, neg]   (neg: the row's        *)
(*                 negative_expires_at), primary key (value, list)         *)
(*   full_hash   : set of rows [value, list, exp]   (exp: expires_at),     *)
(*                 primary key (value, list)                               *)
(* The connection has a working state (db) and the last committed state    *)
(* (committed): python's sqlite3 opens a transaction at the first          *)
(* INSERT/UPDATE/DELETE, commit() makes the working state the committed    *)
(* one and rollback() returns to the committed one.                        *)
(*                                                                         *)
(* Byte strings are sequences of small integers.  Server fields that       *)
(* travel base64-encoded are held decoded.  SHA-256 is a collision-free    *)
(* digest: the digest of b is the record [sha256 |-> b].                   *)
(***************************************************************************)
EXTENDS Integers, Sequences, FiniteSets, TLC

VARIABLES
    db,         \* working state of the connection
    committed,  \* last committed state
    platforms,  \* SafeBrowsingList.platforms: None or a list of platform types
    now,        \* SQLite's current_timestamp, in seconds
    pc,         \* where the single thread is: idle, or inside a pass or a lookup
    pending,    \* update pass: lists of the responses not handled yet, in order
    outcome,    \* how the last operation ended: "none", "update:ok", ...
    ret,        \* last lookup: the full_hash rows appended to the result
    calls,      \* last lookup: number of fullHashes.find calls made
    arg,        \* last lookup: the string lookup_url was called with
    url,        \* last lookup: the URL's permutation hashes
    matched,    \* last lookup: matching_prefixes and matching_full_hashes
    owed,       \* history: lists of the matches of the last fullHashes.find
                \* reply for this URL that are for a hash of the URL and
                \* cached for > 0 s
    prepass,    \* history: the committed state when the current pass began
    passLists,  \* history: lists of all responses of the current pass, in order
    delivered,  \* history: list -> the checksum and newClientState of the
                \* response committed last for it
    advertised, \* history: the lists threatLists.list advertised last
    lastFull,   \* history: the response committed last, when a FULL_UPDATE:
                \* its list, additions and newClientState
    next_call_timestamp,     \* BaseProtocolClient._next_call_timestamp
    error_count,             \* BaseProtocolClient._error_count
    discard_fair_use_policy, \* BaseProtocolClient.discard_fair_use_policy
    apiCalls,   \* history: number of API calls made
    lastCall,   \* history: the last API call: its type, the seconds slept
                \* before it, when it was issued, what came back
    gate,       \* history: the latest t + d over the responses received at t
                \* that carried a minimum wait d
    streak,     \* history: HTTP 5xx replies since the last other reply
    backend,    \* the storage class: SqliteStorage or MySQLStorage
    schema,     \* the stored cache: what its metadata table holds
    opened,     \* history: schema and contents the last open found
    called,     \* history: the last storage operation called on its own,
                \* its arguments, when it was called, what it raised
    seen,       \* the lookup_url call of another process on the same file:
                \* its reads so far, each with what it returned
    given,      \* URL.url: the text the URL object was made of
    canon,      \* URL(given).canonical, or <<>> before it is asked for
    deeper,     \* the canonical form of given with every '%' escaped once
                \* more, or <<>>
    again,      \* URL(canon).canonical, or <<>>
    perms       \* list(URL.url_permutations(canon)), or <<>>

vars == <<db, committed, platforms, now, pc, pending, outcome, ret, calls, arg,
          url, matched, owed, prepass, passLists, delivered, advertised,
          lastFull, next_call_timestamp, error_count, discard_fair_use_policy,
          apiCalls, lastCall, gate, streak, backend, schema, opened,
          called, seen, given, canon, deeper, again, perms>>

---------------------------------------------------------------------------
(* Bounds of the model.                                                    *)

\* The clock stops advancing at MaxTime.
MaxTime == 2

\* Matches in one fullHashes.find reply.
MaxMatches == 1

\* API calls of one client object.
MaxCalls == 4

\* The hosts of the URLs tried have up to MaxLabels labels.
MaxLabels == 6

\* Storage operations called one after another on one storage object.
MaxOps == 3

\* lookup_url calls of the other process of SpecSnapshot.
MaxLookups == 1

---------------------------------------------------------------------------
(* Values.                                                                 *)

NULL == "NULL"

\* ThreatList.as_tuple(): (threat_type, platform_type, threat_entry_type).
ThreatLists ==
    { <<"MALWARE", "ANY_PLATFORM", "URL">>, <<"MALWARE", "WINDOWS", "URL">> }

platform_type(tl) == tl[2]

\* ThreatList.__repr__: the three identifiers joined by '/'.  The
\* identifiers are the API's enum names, which hold no '/', so the joined
\* string determines the triple; it is kept as the triple.
repr(tl) == <<tl[1], "/", tl[2], "/", tl[3]>>

\* newClientState tokens the server hands out.
ClientStates == {"s1", "s2"}

\* The values of SafeBrowsingList.platforms: None (is_none), or a list.
PlatformChoices ==
    { [is_none |-> TRUE, list |-> {}],
      [is_none |-> FALSE, list |-> {"ANY_PLATFORM"}] }

Min(a, b) == IF a < b THEN a ELSE b

\* Order of SQLite BLOBs (memcmp, then length): ORDER BY value.
LexLess(a, b) ==
    \E i \in 1..(Min(Len(a), Len(b)) + 1) :
        /\ \A j \in 1..(i - 1) : a[j] = b[j]
        /\ \/ i <= Len(a) /\ i <= Len(b) /\ a[i] < b[i]
           \/ i = Len(a) + 1 /\ i <= Len(b)

\* The rows' values of one list in ORDER BY value order.
RECURSIVE SortedValues(_)
SortedValues(S) ==
    IF S = {} THEN <<>>
    ELSE LET m == CHOOSE x \in S : \A y \in S \ {x} : LexLess(x, y)
         IN  <<m>> \o SortedValues(S \ {m})

\* b''.join(...)
RECURSIVE Join(_)
Join(s) == IF s = <<>> THEN <<>> ELSE Head(s) \o Join(Tail(s))

\* hashlib.sha256(b).digest()
sha256(b) == [sha256 |-> b]

---------------------------------------------------------------------------
(* gglsbl/storage.py: HashPrefixList and SqliteStorage.  Every operation   *)
(* takes the working state d and gives the working state after it; t is    *)
(* current_timestamp.                                                      *)

\* HashPrefixList.__iter__: raw_hashes[i:i + n] for i in range(0, len, n);
\* the last chunk is shorter when n does not divide the length.
RECURSIVE HashPrefixList(_, _)
HashPrefixList(prefix_size, raw_hashes) ==
    IF raw_hashes = <<>> THEN <<>>
    ELSE IF Len(raw_hashes) <= prefix_size THEN <<raw_hashes>>
    ELSE <<SubSeq(raw_hashes, 1, prefix_size)>>
         \o HashPrefixList(prefix_size,
                SubSeq(raw_hashes, prefix_size + 1, Len(raw_hashes)))

\* SELECT value FROM hash_prefix WHERE <list> ORDER BY value
ListValues(d, tl) == { r.value : r \in { x \in d.hash_prefix : x.list = tl } }

get_threat_lists(d) == DOMAIN d.threat_list

get_client_state(d) == d.threat_list

\* A bug to tell the claims from: INSERT OR REPLACE, which resets the row.
add_threat_list_replace(d, tl) ==
    [d EXCEPT !.threat_list =
        [l \in DOMAIN d.threat_list \cup {tl} |->
            IF l = tl THEN NULL ELSE d.threat_list[l]]]

\* INSERT OR IGNORE: a stored list keeps its row (and its client_state).
add_threat_list(d, tl) ==
    IF tl \in DOMAIN d.threat_list THEN d
    ELSE [d EXCEPT !.threat_list =
            [l \in DOMAIN d.threat_list \cup {tl} |->
                IF l = tl THEN NULL ELSE d.threat_list[l]]]

\* DELETE FROM threat_list.  The connection never sets PRAGMA foreign_keys,
\* so SQLite does not run the ON DELETE CASCADE of hash_prefix.
delete_threat_list(d, tl) ==
    [d EXCEPT !.threat_list =
        [l \in DOMAIN d.threat_list \ {tl} |-> d.threat_list[l]]]

\* UPDATE threat_list SET client_state=? WHERE <list>: no row, no change.
update_threat_list_client_state(d, tl, client_state) ==
    IF tl \in DOMAIN d.threat_list
    THEN [d EXCEPT !.threat_list[tl] = client_state]
    ELSE d

delete_hash_prefix_list(d, tl) ==
    [d EXCEPT !.hash_prefix = { r \in d.hash_prefix : r.list # tl }]

hash_prefix_list_checksum(d, tl) ==
    sha256(Join(SortedValues(ListValues(d, tl))))

\* executemany(INSERT ...): one INSERT per prefix, in order; the first one
\* that repeats a (value, list) key raises sqlite3.IntegrityError and the
\* rows inserted before it stay in the open transaction.  error: the
\* exception raised, "" for none.  A new row's
\* negative_expires_at defaults to current_timestamp.
\* A bug to tell the claims from: the table has no primary key.
RECURSIVE InsertPrefixes_without_key(_, _, _, _)
InsertPrefixes_without_key(rows, tl, values, t) ==
    IF values = <<>> THEN [rows |-> rows, error |-> ""]
    ELSE InsertPrefixes_without_key(
            rows \cup {[value |-> Head(values), list |-> tl, neg |-> t]},
            tl, Tail(values), t)

RECURSIVE InsertPrefixes(_, _, _, _)
InsertPrefixes(rows, tl, values, t) ==
    IF values = <<>> THEN [rows |-> rows, error |-> ""]
    ELSE IF \E r \in rows : r.value = Head(values) /\ r.list = tl
    THEN [rows |-> rows, error |-> "IntegrityError"]
    ELSE InsertPrefixes(
            rows \cup {[value |-> Head(values), list |-> tl, neg |-> t]},
            tl, Tail(values), t)

populate_hash_prefix_list(d, tl, hash_prefix_list, t) ==
    LET r == InsertPrefixes(d.hash_prefix, tl, hash_prefix_list, t)
    IN  [d |-> [d EXCEPT !.hash_prefix = r.rows], error |-> r.error]

\* The values at the 0-based positions `indices` of the list's sorted
\* values; positions past the end select nothing.
get_hash_prefix_values_to_remove(d, tl, indices) ==
    LET sorted == SortedValues(ListValues(d, tl))
    IN  { sorted[i] : i \in { j \in 1..Len(sorted) : (j - 1) \in indices } }

\* A bug to tell the claims from: the DELETE does not name the list.
remove_hash_prefix_indices_any_list(d, tl, indices) ==
    LET prefixes_to_remove == get_hash_prefix_values_to_remove(d, tl, indices)
    IN  [d EXCEPT !.hash_prefix =
            { r \in d.hash_prefix : r.value \notin prefixes_to_remove }]

\* DELETE ... WHERE <list> AND value IN (batch), for every batch.
remove_hash_prefix_indices(d, tl, indices) ==
    LET prefixes_to_remove == get_hash_prefix_values_to_remove(d, tl, indices)
    IN  [d EXCEPT !.hash_prefix =
            { r \in d.hash_prefix :
                ~(r.list = tl /\ r.value \in prefixes_to_remove) }]

\* keep_expired_for=(60 * 60 * 12)
keep_expired_for == 43200

\* A bug to tell the claims from: every expired row is deleted.
cleanup_full_hashes_no_grace(d, t) ==
    [d EXCEPT !.full_hash = { r \in d.full_hash : ~(r.exp < t) }]

\* DELETE FROM full_hash WHERE expires_at < now - keep_expired_for
cleanup_full_hashes(d, t) ==
    [d EXCEPT !.full_hash =
        { r \in d.full_hash : ~(r.exp < t - keep_expired_for) }]

\* A bug to tell the claims from: INSERT OR IGNORE with the expiry, and
\* no UPDATE of a row that is there.
store_full_hash_ignore(d, tl, hash_value, cache_duration, t) ==
    IF \E r \in d.full_hash : r.value = hash_value /\ r.list = tl
    THEN d
    ELSE [d EXCEPT !.full_hash =
            d.full_hash \cup
            {[value |-> hash_value, list |-> tl, exp |-> t + cache_duration]}]

\* INSERT OR IGNORE, then UPDATE expires_at = now + cache_duration.
store_full_hash(d, tl, hash_value, cache_duration, t) ==
    [d EXCEPT !.full_hash =
        { r \in d.full_hash : ~(r.value = hash_value /\ r.list = tl) }
        \cup {[value |-> hash_value, list |-> tl, exp |-> t + cache_duration]}]

\* A bug to tell the claims from: the UPDATE is of one list's row only.
update_hash_prefix_expiration_one_list(d, prefix_value, negative_cache_duration, t) ==
    LET rows == { r \in d.hash_prefix : r.value = prefix_value }
    IN  IF rows = {} THEN d
        ELSE LET one == CHOOSE r \in rows : TRUE
             IN  [d EXCEPT !.hash_prefix =
                    (d.hash_prefix \ {one})
                    \cup {[one EXCEPT !.neg = t + negative_cache_duration]}]

\* UPDATE hash_prefix SET negative_expires_at = now + d WHERE value=?
update_hash_prefix_expiration(d, prefix_value, negative_cache_duration, t) ==
    [d EXCEPT !.hash_prefix =
        { IF r.value = prefix_value
          THEN [r EXCEPT !.neg = t + negative_cache_duration] ELSE r :
          r \in d.hash_prefix }]

\* The cue column: value[0:4].
CueLen == 4

Cue(value) == SubSeq(value, 1, Min(CueLen, Len(value)))

\* A bug to tell the claims from: MIN in the place of MAX.
lookup_hash_prefix_min(d, cues, t) ==
    { <<v, \A r \in { x \in d.hash_prefix : x.value = v } : r.neg < t>> :
        v \in { r.value : r \in { x \in d.hash_prefix : Cue(x.value) \in cues } } }

\* SELECT value, MAX(negative_expires_at < now) ... WHERE cue IN (cues)
\* GROUP BY value: the set of (value, negative_cache_expired).
lookup_hash_prefix(d, cues, t) ==
    { <<v, \E r \in d.hash_prefix : r.value = v /\ r.neg < t>> :
        v \in { r.value : r \in { x \in d.hash_prefix : Cue(x.value) \in cues } } }

\* SELECT <list>, expires_at < now FROM full_hash WHERE value IN (values):
\* one (threat_list, has_expired) per row; the row's value is kept to tell
\* the rows apart.
lookup_full_hashes(d, hash_values, t) ==
    { [list |-> r.list, value |-> r.value, has_expired |-> r.exp < t] :
        r \in { x \in d.full_hash : x.value \in hash_values } }


---------------------------------------------------------------------------
(* gglsbl/client.py: SafeBrowsingList, the update pass.                    *)

\* A bug to tell the claims from: the per-response commit() is left out.
commit_left_out(d, c) == <<d, c>>

\* A bug to tell the claims from: the except branch does not roll back.
rollback_left_out(d, c) == <<d, c>>

\* self.storage.commit() / self.storage.rollback(): the pair
\* <<working state, committed state>> after it.
commit(d, c) == <<d, d>>

rollback(d, c) == <<c, c>>

\* for ts in threat_lists_to_remove.values():
\*     delete_hash_prefix_list(ts); delete_threat_list(ts)
RECURSIVE DeleteLists(_, _)
DeleteLists(d, lists) ==
    IF lists = {} THEN d
    ELSE LET ts == CHOOSE x \in lists : TRUE
         IN  DeleteLists(delete_threat_list(delete_hash_prefix_list(d, ts), ts),
                         lists \ {ts})

RECURSIVE AddLists(_, _)
AddLists(d, lists) ==
    IF lists = {} THEN d
    ELSE LET tl == CHOOSE x \in lists : TRUE
         IN  AddLists(add_threat_list(d, tl), lists \ {tl})

\* _sync_threat_lists: threat_lists is what threatLists.list advertises.
\* threat_lists_to_remove is keyed by repr(); an advertised list that
\* passes the platform filter is added and its key deleted from the dict.
sync_threat_lists(d, threat_lists, plat) ==
    LET accepted == { tl \in threat_lists :
                        plat.is_none \/ platform_type(tl) \in plat.list }
        kept_keys == { repr(tl) : tl \in accepted }
        threat_lists_to_remove ==
            { ts \in get_threat_lists(d) : repr(ts) \notin kept_keys }
    IN  DeleteLists(AddLists(d, accepted), threat_lists_to_remove)

\* for r in response.get('removals', []): remove_hash_prefix_indices(...)
RECURSIVE ApplyRemovals(_, _, _)
ApplyRemovals(d, tl, removals) ==
    IF removals = <<>> THEN d
    ELSE ApplyRemovals(remove_hash_prefix_indices(d, tl, Head(removals)),
                       tl, Tail(removals))

\* for a in response.get('additions', []): populate_hash_prefix_list(...);
\* an IntegrityError ends the loop.
RECURSIVE ApplyAdditions(_, _, _, _)
ApplyAdditions(d, tl, additions, t) ==
    IF additions = <<>> THEN [d |-> d, error |-> ""]
    ELSE LET a == Head(additions)
             r == populate_hash_prefix_list(d, tl,
                      HashPrefixList(a.prefixSize, a.rawHashes), t)
         IN  IF r.error # "" THEN r
             ELSE ApplyAdditions(r.d, tl, Tail(additions), t)

\* A bug to tell the claims from: a FULL_UPDATE keeps the old prefixes.
ApplyResponseType_keeps(d, response) == d

\* if response['responseType'] == 'FULL_UPDATE': delete_hash_prefix_list
ApplyResponseType(d, response) ==
    IF response.responseType = "FULL_UPDATE"
    THEN delete_hash_prefix_list(d, response.threatList)
    ELSE d

\* A bug to tell the claims from: the checksum is not compared.
verify_threat_list_checksum_skipped(d, threat_list, remote_checksum) == TRUE

\* _verify_threat_list_checksum
verify_threat_list_checksum(d, threat_list, remote_checksum) ==
    remote_checksum = hash_prefix_list_checksum(d, threat_list)

\* The body of the loop of _sync_hash_prefix_cache for one response, up to
\* its commit or its exception: the working state it leaves, and the
\* exception it raised ("": none; IntegrityError; the checksum mismatch).
sync_response(d, response, t) ==
    LET tl == response.threatList
        d1 == ApplyResponseType(d, response)
        d2 == ApplyRemovals(d1, tl, response.removals)
        r3 == ApplyAdditions(d2, tl, response.additions, t)
    IN  IF r3.error # "" THEN r3
        ELSE IF verify_threat_list_checksum(r3.d, tl, response.checksum)
        THEN [d |-> update_threat_list_client_state(r3.d, tl,
                        response.newClientState),
              error |-> ""]
        ELSE [d |-> r3.d, error |-> "ChecksumMismatch"]

---------------------------------------------------------------------------
(* What the server may send.                                               *)

P1 == <<1, 1, 1, 1>>
P2 == <<1, 1, 1, 2>>

\* Prefixes the server's lists hold.
ServerPrefixes == {P1, P2}

\* additions: a sequence of {rawHashes: {prefixSize, rawHashes}}.
Addition(n, raw) == [prefixSize |-> n, rawHashes |-> raw]

AdditionsPool ==
    { <<>>,
      <<Addition(4, P1)>>,
      <<Addition(4, P2)>>,
      <<Addition(4, P2 \o P1)>> }

\* removals: a sequence of {rawIndices: {indices}}.
RemovalsPool == { <<>>, <<{0}>>, <<{1}>>, <<{0}, {0}>> }

\* checksum.sha256: the digest of some list the server could hold.
Checksums(prefixes) == { sha256(Join(SortedValues(S))) : S \in SUBSET prefixes }

ChecksumPool == Checksums(ServerPrefixes)

\* What the server of the update passes of SpecSync may send.
SyncServer ==
    [ lists |-> SUBSET ThreatLists,
      additions |-> AdditionsPool,
      removals |-> RemovalsPool,
      checksums |-> ChecksumPool,
      states |-> ClientStates ]

\* The list update responses of a server for list tl.
Responses(tl, server) ==
    [ threatList : {tl},
      responseType : {"FULL_UPDATE", "PARTIAL_UPDATE"},
      removals : server.removals,
      additions : server.additions,
      checksum : server.checksums,
      newClientState : server.states ]

\* The lists of the responses of one threatListUpdates.fetch, in order:
\* one response at most for each list of the request.
RECURSIVE Orders(_)
Orders(S) ==
    {<<>>} \cup
    UNION { { <<x>> \o o : o \in Orders(S \ {x}) } : x \in S }

---------------------------------------------------------------------------
(* gglsbl/client.py: SafeBrowsingList, the lookup.                         *)

\* Text is a sequence of characters.  The characters str.strip() removes,
\* those of them the texts of the model hold.
Whitespace == {" ", "\t", "\n", "\r"}

RECURSIVE lstrip(_)
lstrip(s) ==
    IF s # <<>> /\ Head(s) \in Whitespace THEN lstrip(Tail(s)) ELSE s

RECURSIVE rstrip(_)
rstrip(s) ==
    IF s # <<>> /\ s[Len(s)] \in Whitespace
    THEN rstrip(SubSeq(s, 1, Len(s) - 1))
    ELSE s

\* A bug to tell the claims from: the input is tested as it came.
strip_left_out(s) == s

\* str.strip()
strip(s) == rstrip(lstrip(s))

StartsWith(full_hash, hash_prefix) ==
    /\ Len(hash_prefix) <= Len(full_hash)
    /\ SubSeq(full_hash, 1, Len(hash_prefix)) = hash_prefix

\* A duration as the API writes it, "<secs>s" or "<secs>.<digits>s":
\* fraction tells whether the text has a fractional part.
Duration(secs, fraction) == [secs |-> secs, fraction |-> fraction]

\* int(text.rstrip('s')): int() takes a decimal integer only and raises
\* ValueError on any other text.
int_raises(duration) == duration.fraction

int_rstrip_s(duration) == duration.secs

\* _lookup_hashes, lines 145-157: matching_prefixes (prefix value and
\* whether its negative cache has expired) and matching_full_hashes.
matching(d, full_hashes, t) ==
    LET cues == { Cue(fh) : fh \in full_hashes }
        rows == lookup_hash_prefix(d, cues, t)
    IN  [prefixes |-> { row \in rows :
                          \E fh \in full_hashes : StartsWith(fh, row[1]) },
         full_hashes |-> { fh \in full_hashes :
                          \E row \in rows : StartsWith(fh, row[1]) }]

\* A bug to tell the claims from: expired full hashes are reported too.
unexpired_all(rows) == { [list |-> r.list, value |-> r.value] : r \in rows }

\* for threat_list, has_expired in lookup_full_hashes(...):
\*     if not has_expired: result.append(threat_list)
unexpired(rows) ==
    { [list |-> r.list, value |-> r.value] :
        r \in { x \in rows : ~x.has_expired } }

\* len(matching_expired_threat_lists) == 0 and
\* sum(map(int, matching_prefixes.values())) == 0
negative_cache_hit(m, rows) ==
    /\ ~\E r \in rows : r.has_expired
    /\ ~\E row \in m.prefixes : row[2]

\* _lookup_hashes up to the call of _sync_full_hashes: whether it answers
\* from the storage, and the answer.
lookup_local(d, full_hashes, t) ==
    LET m == matching(d, full_hashes, t)
        rows == lookup_full_hashes(d, m.full_hashes, t)
    IN  IF m.prefixes = {}
        THEN [answered |-> TRUE, result |-> {}, m |-> m]
        ELSE IF unexpired(rows) # {}
        THEN [answered |-> TRUE, result |-> unexpired(rows), m |-> m]
        ELSE IF negative_cache_hit(m, rows)
        THEN [answered |-> TRUE, result |-> {}, m |-> m]
        ELSE [answered |-> FALSE, result |-> {}, m |-> m]

\* for m in fh_response.get('matches', []): store_full_hash(...)
RECURSIVE StoreMatches(_, _, _)
StoreMatches(d, matches, t) ==
    IF matches = {} THEN d
    ELSE LET m == CHOOSE x \in matches : TRUE
         IN  StoreMatches(
                store_full_hash(d, m.threatList, m.hash,
                                int_rstrip_s(m.cacheDuration), t),
                matches \ {m}, t)

\* for prefix_value in hash_prefixes: update_hash_prefix_expiration(...)
RECURSIVE UpdateExpirations(_, _, _, _)
UpdateExpirations(d, hash_prefixes, negative_cache_duration, t) ==
    IF hash_prefixes = {} THEN d
    ELSE LET prefix_value == CHOOSE x \in hash_prefixes : TRUE
         IN  UpdateExpirations(
                update_hash_prefix_expiration(d, prefix_value,
                                              negative_cache_duration, t),
                hash_prefixes \ {prefix_value}, negative_cache_duration, t)

\* _sync_full_hashes from the reply on: the working state it leaves and
\* the exception it raised.  A duration int() refuses raises ValueError,
\* and lookup_url rolls back whatever was stored before it.
sync_full_hashes(d, hash_prefixes, fh_response, t) ==
    IF \/ \E m \in fh_response.matches : int_raises(m.cacheDuration)
       \/ int_raises(fh_response.negativeCacheDuration)
    THEN [d |-> d, error |-> "ValueError"]
    ELSE [d |-> UpdateExpirations(
                    StoreMatches(d, fh_response.matches, t), hash_prefixes,
                    int_rstrip_s(fh_response.negativeCacheDuration), t),
          error |-> ""]

\* A bug to tell the claims from: an empty second lookup asks again.
after_sync_full_hashes_retries(result) ==
    IF result = {} THEN "find" ELSE "idle"

\* _lookup_hashes, lines 180-185: after _sync_full_hashes the full hash
\* lookup is repeated once and its result returned, whatever it is.
after_sync_full_hashes(result) == "idle"

\* Full hashes of URLs; H2 is also a prefix of full length.
H1 == <<1, 1, 1, 1, 1>>
H2 == <<1, 1, 1, 1, 2>>

\* URL(url).hashes of the URLs looked up.
UrlPool == { {H1}, {H1, H2} }

\* The strings lookup_url is called with: empty, whitespace only, and two
\* URLs, one of them with whitespace around it.
UrlInputs == { <<>>, <<" ", "\t">>, <<"a">>, <<" ", "b", " ">> }

\* URL(url).hashes: the digests of the permutations of the URL, of which
\* URL "a" has one and URL "b" two.
url_hashes(text) == IF strip(text) = <<"a">> THEN {H1} ELSE {H1, H2}

\* Full hashes the server knows.
FullHashPool == {H1, H2}

DurationPool == { Duration(0, FALSE), Duration(1, FALSE), Duration(1, TRUE) }

\* Lists the server has full hashes in: one the client stores unless its
\* platform filter leaves it out.
FullHashLists == { <<"MALWARE", "WINDOWS", "URL">> }

\* A match of fullHashes.find, the fields the client reads.
Matches(hash_prefixes) ==
    [ threatList : FullHashLists,
      hash : { h \in FullHashPool :
                 \E p \in hash_prefixes : StartsWith(h, p) },
      cacheDuration : DurationPool ]

\* The replies to fullHashes.find for hash_prefixes: full hashes that
\* begin with a prefix of the request, one match at most for a hash and
\* list.
FullHashResponses(hash_prefixes) ==
    [ matches : { M \in SUBSET Matches(hash_prefixes) :
                    /\ Cardinality(M) <= MaxMatches
                    /\ \A a, b \in M :
                         (a.hash = b.hash /\ a.threatList = b.threatList)
                            => a = b },
      negativeCacheDuration : DurationPool ]

\* Prefixes of the lists of the server the looked-up URLs can match.
LookupAdditionsPool ==
    { <<Addition(4, P1)>>, <<Addition(4, P1), Addition(5, H2)>> }

\* What the server of the update passes of SpecLookup may send.
LookupServer ==
    [ lists |-> {ThreatLists},
      additions |-> LookupAdditionsPool,
      removals |-> {<<>>},
      checksums |-> Checksums({P1, H2}),
      states |-> {"s1"} ]

---------------------------------------------------------------------------
(* gglsbl/storage.py and gglsbl/storageMySQL.py: opening the cache.  What  *)
(* is stored is a schema and the contents d; the schema is                 *)
(*   "absent"  : no file (SqliteStorage), no table metadata (MySQLStorage) *)
(*   "empty"   : a file without the table metadata                         *)
(*   "no_row"  : the table metadata without a row schema_version           *)
(*   otherwise : the value of the row schema_version.                      *)

schema_version == "1.1"

EmptyDb == [threat_list |-> <<>>, hash_prefix |-> {}, full_hash |-> {}]

\* init_db: the tables are created empty and the version is stored.
init_db == [schema |-> schema_version, d |-> EmptyDb]

\* SqliteStorage.check_schema_version.  The SELECT raises OperationalError
\* without the table, which is caught; fetchall()[0] raises IndexError
\* without the row, which is not.
check_schema_version(stored) ==
    IF stored = "empty" THEN "False"
    ELSE IF stored = "no_row" THEN "IndexError"
    ELSE IF stored = schema_version THEN "True"
    ELSE "False"

\* SqliteStorage.__init__: the stored cache it leaves and the exception it
\* raised.
SqliteStorage(stored, d) ==
    LET first == IF stored = "absent" THEN init_db
                 ELSE [schema |-> stored, d |-> d]
        v == check_schema_version(first.schema)
    IN  IF v = "IndexError"
        THEN [schema |-> first.schema, d |-> first.d, raised |-> "IndexError"]
        ELSE IF v = "False"
        THEN [schema |-> init_db.schema, d |-> init_db.d, raised |-> ""]
        ELSE [schema |-> first.schema, d |-> first.d, raised |-> ""]

\* MySQLStorage.check_schema_exists
check_schema_exists(stored) == stored \notin {"absent", "empty"}

\* MySQLStorage.init_db: CREATE TABLE IF NOT EXISTS and INSERT IGNORE.
mysql_init_db(d) == [schema |-> schema_version, d |-> d]

\* MySQLStorage.check_schema_version: fetchone() gives None without the
\* row.
mysql_check_schema_version(stored) == stored = schema_version

\* MySQLStorage.__init__
MySQLStorage(stored, d) ==
    LET first == IF ~check_schema_exists(stored) THEN mysql_init_db(d)
                 ELSE [schema |-> stored, d |-> d]
    IN  IF ~mysql_check_schema_version(first.schema)
        THEN [schema |-> first.schema, d |-> first.d, raised |-> "Exception"]
        ELSE [schema |-> first.schema, d |-> first.d, raised |-> ""]

---------------------------------------------------------------------------
(* gglsbl/protocol.py: BaseProtocolClient, the client object behind        *)
(* SafeBrowsingList.api_client.  t is int(time.time()).                    *)

\* set_next_call_timeout: the new _next_call_timestamp.
set_next_call_timeout(t, delay) == t + delay

\* A bug to tell the claims from: the recorded timestamp is not looked at.
fair_use_delay_forgets(count, timestamp, t, r) ==
    IF count = 1 THEN 60
    ELSE IF count > 1 THEN 60 * Min(480, r * (2 ^ (count - 2)))
    ELSE 0

\* fair_use_delay, lines 44-49: the delay; r is random.randint(30, 60).
fair_use_delay(count, timestamp, t, r) ==
    IF count = 1 THEN 60
    ELSE IF count > 1 THEN 60 * Min(480, r * (2 ^ (count - 2)))
    ELSE timestamp - t

\* fair_use_delay, lines 50-52: the seconds slept.
sleep(delay, discard) == IF delay > 0 /\ ~discard THEN delay ELSE 0

\* FullHashProtocolClient.fair_use_delay: the delay of lines 232-235, and
\* what line 236 raises: when the delay is positive it reads
\* self.respect_fair_use_policy, an attribute that no __init__ sets.
FullHashProtocolClient_fair_use_delay(count, timestamp, t) ==
    LET delay == IF count > 1 THEN Min(120, 30 * (2 ^ (count - 2)))
                 ELSE timestamp - t
    IN  [delay |-> delay,
         raised |-> IF delay > 0 THEN "AttributeError" ELSE ""]

\* What urllib2.urlopen comes back with: an HTTP status, or URLError when
\* the connection failed.
Statuses == {"200", "400", "503", "URLError"}

\* urlopen raises HTTPError for the statuses that are not a success.
HTTPError(status) == status \in {"400", "503"}

\* apiCall: the new _error_count and the exception raised.
apiCall(count, status) ==
    IF HTTPError(status) THEN [error_count |-> count + 1, raised |-> "HTTPError"]
    ELSE IF status = "URLError" THEN [error_count |-> count, raised |-> "URLError"]
    ELSE [error_count |-> 0, raised |-> ""]

\* _preparseData, lines 207-210: the exception raised for a response
\* that does not begin with the poll interval; wait is <<>> then.
preparseData(wait) == IF wait = <<>> THEN "RuntimeError" ELSE ""

\* What the call raises: the exception of apiCall, or that of reading the
\* response when it is one of retrieveMissingChunks.
Raised(type, a, wait) ==
    IF a.raised # "" THEN a.raised
    ELSE IF type = "threatListUpdates.fetch" THEN preparseData(wait)
    ELSE ""

\* The three calls of SafeBrowsingList.
CallTypes == {"threatLists.list", "threatListUpdates.fetch", "fullHashes.find"}

\* random.randint(30, 60): both ends and a value between.
RandintPool == {30, 47, 60}

\* The minimum wait a response carries, in seconds: none, or one.
WaitPool == {<<>>, <<90>>, <<1800>>}

\* Seconds the caller lets pass between two calls.
IdlePool == {0, 100}

---------------------------------------------------------------------------
(* gglsbl/protocol.py: URL.  A str is a sequence of bytes, each a number   *)
(* in 0..255; the characters below are written by their codes (ord).       *)

\* ord() of the characters the URLs of the model are written with.
Ord ==
    [ c \in {"a", "b", "c", "d", "e", "f", "g", "h", "p", "t", "x", "A", "B",
             "0", "1", "2", "3", "4", "5", "6", "7", "8",
             " ", "\t", "#", "%", ".", "/", ":", "?", "@", "[", "]"} |->
        CASE c = "a" -> 97  [] c = "b" -> 98  [] c = "c" -> 99
          [] c = "d" -> 100 [] c = "e" -> 101 [] c = "f" -> 102
          [] c = "g" -> 103 [] c = "h" -> 104 [] c = "p" -> 112
          [] c = "t" -> 116 [] c = "x" -> 120
          [] c = "A" -> 65  [] c = "B" -> 66
          [] c = "0" -> 48  [] c = "1" -> 49  [] c = "2" -> 50
          [] c = "3" -> 51  [] c = "4" -> 52  [] c = "5" -> 53
          [] c = "6" -> 54  [] c = "7" -> 55  [] c = "8" -> 56
          [] c = " " -> 32  [] c = "\t" -> 9
          [] c = "#" -> 35  [] c = "%" -> 37  [] c = "." -> 46
          [] c = "/" -> 47  [] c = ":" -> 58  [] c = "?" -> 63
          [] c = "@" -> 64  [] c = "[" -> 91  [] c = "]" -> 93 ]

\* The str written as the sequence of its characters.
Str(chars) == [i \in 1..Len(chars) |-> Ord[chars[i]]]

Digits == 48..57

\* string.hexdigits
HexDigits == Digits \cup (65..70) \cup (97..102)

\* int(c, 16) of a hex digit
HexValue(b) ==
    IF b \in Digits THEN b - 48
    ELSE IF b \in 65..70 THEN b - 55
    ELSE b - 87

\* '%02X' % n, one digit of it
UpperHex(n) == IF n < 10 THEN 48 + n ELSE 55 + n

\* s[i:], i counting from 1
From(s, i) == SubSeq(s, i, Len(s))

\* s.find(c) counting from 1; 0 when c is not in s
Find(s, c) ==
    IF \E i \in 1..Len(s) : s[i] = c
    THEN CHOOSE i \in 1..Len(s) : s[i] = c /\ \A j \in 1..(i - 1) : s[j] # c
    ELSE 0

\* s.rfind(c) counting from 1; 0 when c is not in s
RFind(s, c) ==
    IF \E i \in 1..Len(s) : s[i] = c
    THEN CHOOSE i \in 1..Len(s) :
             s[i] = c /\ \A j \in (i + 1)..Len(s) : s[j] # c
    ELSE 0

\* s.split(c): the pieces between the occurrences of c
RECURSIVE Split(_, _)
Split(s, c) ==
    LET i == Find(s, c)
    IN  IF i = 0 THEN <<s>>
        ELSE <<SubSeq(s, 1, i - 1)>> \o Split(From(s, i + 1), c)

\* c.join(pieces)
RECURSIVE JoinWith(_, _)
JoinWith(pieces, c) ==
    IF pieces = <<>> THEN <<>>
    ELSE IF Len(pieces) = 1 THEN pieces[1]
    ELSE pieces[1] \o <<c>> \o JoinWith(Tail(pieces), c)

\* s.lower()
lower(s) == [i \in 1..Len(s) |-> IF s[i] \in 65..90 THEN s[i] + 32 ELSE s[i]]

\* s.replace(c, '')
RECURSIVE Delete(_, _)
Delete(s, cs) ==
    IF s = <<>> THEN <<>>
    ELSE IF Head(s) \in cs THEN Delete(Tail(s), cs)
    ELSE <<Head(s)>> \o Delete(Tail(s), cs)

\* s.strip(chars)
RECURSIVE StripOf(_, _)
StripOf(s, cs) ==
    IF s # <<>> /\ Head(s) \in cs THEN StripOf(Tail(s), cs)
    ELSE IF s # <<>> /\ s[Len(s)] \in cs
    THEN StripOf(SubSeq(s, 1, Len(s) - 1), cs)
    ELSE s

\* urllib.unquote: every '%' that two hex digits follow becomes the byte
\* they spell, in one pass from the left.
RECURSIVE unquote(_)
unquote(s) ==
    IF s = <<>> THEN <<>>
    ELSE IF /\ s[1] = 37
            /\ Len(s) >= 3
            /\ s[2] \in HexDigits
            /\ s[3] \in HexDigits
    THEN <<16 * HexValue(s[2]) + HexValue(s[3])>> \o unquote(From(s, 4))
    ELSE <<s[1]>> \o unquote(Tail(s))

\* A bug to tell the claims from: one pass of unquote only.
full_unescape_once(u) == unquote(u)

\* canonical, lines 311-316: unquote until nothing changes.
RECURSIVE full_unescape(_)
full_unescape(u) ==
    LET uu == unquote(u)
    IN  IF uu = u THEN uu ELSE full_unescape(uu)

\* urllib.always_safe: letters, digits and '_.-'
always_safe == (65..90) \cup (97..122) \cup Digits \cup {95, 46, 45}

\* canonical, line 318: '!"$&\'()*+,-./:;<=>?@[\\]^_`{|}~'
safe_chars ==
    {33, 34, 36, 38, 39, 40, 41, 42, 43, 44, 45, 46, 47, 58, 59, 60, 61, 62,
     63, 64, 91, 92, 93, 94, 95, 96, 123, 124, 125, 126}

\* canonical, lines 317-319: urllib.quote(s, safe=safe_chars)
RECURSIVE quote(_)
quote(s) ==
    IF s = <<>> THEN <<>>
    ELSE (IF s[1] \in always_safe \cup safe_chars THEN <<s[1]>>
          ELSE <<37, UpperHex(s[1] \div 16), UpperHex(s[1] % 16)>>)
         \o quote(Tail(s))

\* urlparse.scheme_chars: letters, digits and '+-.'
scheme_chars == (65..90) \cup (97..122) \cup Digits \cup {43, 45, 46}

\* urlparse._splitnetloc(url, 2): the netloc ends at the first of '/?#'.
splitnetloc(u) ==
    LET rest == From(u, 3)
        ends == { i \in 1..Len(rest) : rest[i] \in {47, 63, 35} }
        delim == IF ends = {} THEN Len(rest) + 1
                 ELSE CHOOSE i \in ends : \A j \in ends : i <= j
    IN  <<SubSeq(rest, 1, delim - 1), From(rest, delim)>>

\* urlparse.urlsplit: scheme, netloc, path and query of u, or the
\* ValueError of a netloc with one bracket of two.  The text holds no '#'
\* when canonical calls it.
urlsplit(u) ==
    LET i == Find(u, 58)
        before == SubSeq(u, 1, i - 1)
        rest == From(u, i + 1)
        has_scheme ==
            /\ i > 1
            /\ \/ before = <<104, 116, 116, 112>>
               \/ /\ \A k \in 1..Len(before) : before[k] \in scheme_chars
                  /\ rest = <<>> \/ \E k \in 1..Len(rest) : rest[k] \notin Digits
        scheme == IF has_scheme THEN lower(before) ELSE <<>>
        url1 == IF has_scheme THEN rest ELSE u
        has_netloc == Len(url1) >= 2 /\ url1[1] = 47 /\ url1[2] = 47
        netloc == IF has_netloc THEN splitnetloc(url1)[1] ELSE <<>>
        url2 == IF has_netloc THEN splitnetloc(url1)[2] ELSE url1
        q == Find(url2, 63)
    IN  [ scheme |-> scheme,
          netloc |-> netloc,
          path |-> IF q = 0 THEN url2 ELSE SubSeq(url2, 1, q - 1),
          query |-> IF q = 0 THEN <<>> ELSE From(url2, q + 1),
          error |-> IF (Find(netloc, 91) > 0) # (Find(netloc, 93) > 0)
                    THEN "ValueError" ELSE "" ]

\* netloc.split('@')[-1]
after_userinfo(netloc) == From(netloc, RFind(netloc, 64) + 1)

\* None where a byte string is expected: a sequence that is no byte string.
None == <<-1>>

\* SplitResult.hostname; <<>> stands for '' and None for None.
hostname(netloc) ==
    LET n == after_userinfo(netloc)
    IN  IF Find(n, 91) > 0 /\ Find(n, 93) > 0
        THEN lower(SubSeq(n, 2, Find(n, 93) - 1))
        ELSE IF Find(n, 58) > 0 THEN lower(SubSeq(n, 1, Find(n, 58) - 1))
        ELSE IF n = <<>> THEN None
        ELSE lower(n)

\* int(s, 10) of a str of a few digits
RECURSIVE ParseInt(_)
ParseInt(s) ==
    IF s = <<>> THEN 0
    ELSE ParseInt(SubSeq(s, 1, Len(s) - 1)) * 10 + HexValue(s[Len(s)])

\* s.lstrip('0')
RECURSIVE StripZeros(_)
StripZeros(s) == IF s # <<>> /\ Head(s) = 48 THEN StripZeros(Tail(s)) ELSE s

\* str(n) of n >= 0
RECURSIVE Decimal(_)
Decimal(n) ==
    IF n < 10 THEN <<48 + n>> ELSE Decimal(n \div 10) \o <<48 + (n % 10)>>

\* SplitResult.port: the number, None for None, or the ValueError of int().
port(netloc) ==
    LET n == after_userinfo(netloc)
        m == From(n, RFind(n, 93) + 1)
        pieces == Split(m, 58)
        p == IF Len(pieces) > 1 THEN pieces[2] ELSE <<>>
    IN  IF p = <<>> THEN [port |-> None, error |-> ""]
        ELSE IF \E k \in 1..Len(p) : p[k] \notin Digits
        THEN [port |-> None, error |-> "ValueError"]
        ELSE IF Len(StripZeros(p)) <= 5 /\ ParseInt(StripZeros(p)) <= 65535
        THEN [port |-> Decimal(ParseInt(StripZeros(p))), error |-> ""]
        ELSE [port |-> None, error |-> ""]

\* The loop of posixpath.normpath over the components.
RECURSIVE NormComps(_, _, _)
NormComps(comps, new_comps, initial_slashes) ==
    IF comps = <<>> THEN new_comps
    ELSE LET comp == Head(comps)
             n == Len(new_comps)
         IN  IF comp = <<>> \/ comp = <<46>>
             THEN NormComps(Tail(comps), new_comps, initial_slashes)
             ELSE IF \/ comp # <<46, 46>>
                     \/ (initial_slashes = 0 /\ n = 0)
                     \/ (n > 0 /\ new_comps[n] = <<46, 46>>)
             THEN NormComps(Tail(comps), Append(new_comps, comp),
                            initial_slashes)
             ELSE NormComps(Tail(comps),
                            IF n > 0 THEN SubSeq(new_comps, 1, n - 1)
                            ELSE new_comps,
                            initial_slashes)

\* os.path.normpath (posixpath)
normpath(path) ==
    IF path = <<>> THEN <<46>>
    ELSE LET initial_slashes ==
                 IF path[1] # 47 THEN 0
                 ELSE IF Len(path) >= 2 /\ path[2] = 47
                         /\ ~(Len(path) >= 3 /\ path[3] = 47)
                 THEN 2
                 ELSE 1
             joined == JoinWith(NormComps(Split(path, 47), <<>>,
                                          initial_slashes), 47)
             result == [i \in 1..initial_slashes |-> 47] \o joined
         IN  IF result = <<>> THEN <<46>> ELSE result

\* s.replace('//', '/'): from the left, without looking at a place twice
RECURSIVE ReplaceSlashes(_)
ReplaceSlashes(s) ==
    IF Len(s) < 2 THEN s
    ELSE IF s[1] = 47 /\ s[2] = 47 THEN <<47>> \o ReplaceSlashes(From(s, 3))
    ELSE <<s[1]>> \o ReplaceSlashes(Tail(s))

\* re.sub(r'\.+', '.', host)
RECURSIVE CollapseDots(_)
CollapseDots(s) ==
    IF Len(s) < 2 THEN s
    ELSE IF s[1] = 46 /\ s[2] = 46 THEN CollapseDots(Tail(s))
    ELSE <<s[1]>> \o CollapseDots(Tail(s))

\* A number of 32 bits as its four bytes, the first the highest, and
\* whether it has outgrown them: the number times base plus digit.
MulAdd(n, base, digit) ==
    LET x4 == n.bytes[4] * base + digit
        x3 == n.bytes[3] * base + (x4 \div 256)
        x2 == n.bytes[2] * base + (x3 \div 256)
        x1 == n.bytes[1] * base + (x2 \div 256)
    IN  [ bytes |-> <<x1 % 256, x2 % 256, x3 % 256, x4 % 256>>,
          over |-> n.over \/ x1 >= 256 ]

\* The number a str of digits of the base spells.
RECURSIVE ParseAddress(_, _)
ParseAddress(s, base) ==
    IF s = <<>> THEN [bytes |-> <<0, 0, 0, 0>>, over |-> FALSE]
    ELSE MulAdd(ParseAddress(SubSeq(s, 1, Len(s) - 1), base), base,
                HexValue(s[Len(s)]))

\* socket.inet_ntoa
inet_ntoa(bytes) ==
    Decimal(bytes[1]) \o <<46>> \o Decimal(bytes[2]) \o <<46>>
        \o Decimal(bytes[3]) \o <<46>> \o Decimal(bytes[4])

\* socket.gethostbyname of a str of digits or of '0x' and more: the
\* address of the number as inet_aton reads it (a leading 0 makes it
\* octal), or gaierror when it is no number of 32 bits.
gethostbyname(host) ==
    LET hex == Len(host) >= 2 /\ host[1] = 48 /\ host[2] = 120
        octal == ~hex /\ Len(host) >= 2 /\ host[1] = 48
        digits == IF hex THEN From(host, 3) ELSE host
        base == IF hex THEN 16 ELSE IF octal THEN 8 ELSE 10
        valid == /\ digits # <<>>
                 /\ \A k \in 1..Len(digits) :
                      /\ digits[k] \in HexDigits
                      /\ HexValue(digits[k]) < base
        n == ParseAddress(digits, base)
    IN  IF valid /\ ~n.over
        THEN [host |-> inet_ntoa(n.bytes), error |-> ""]
        ELSE [host |-> host, error |-> "gaierror"]

\* str.isdigit()
isdigit(s) == s # <<>> /\ \A k \in 1..Len(s) : s[k] \in Digits

\* canonical, lines 324-327: the parts of the URL, split a second time with
\* 'http://' before it when the first split found no scheme.
with_scheme(first, quoted) ==
    IF first.error # "" \/ first.scheme # <<>>
    THEN [parts |-> first, url |-> quoted]
    ELSE [parts |-> urlsplit(<<104, 116, 116, 112, 58, 47, 47>> \o quoted),
          url |-> <<104, 116, 116, 112, 58, 47, 47>> \o quoted]

\* canonical, lines 338-339 and 348-349: the normalised path with its
\* trailing slash back.
with_trailing_slash(path, normal) ==
    IF path[Len(path)] = 47 /\ normal[Len(normal)] # 47 THEN normal \o <<47>>
    ELSE IF normal = <<>> THEN <<47>>
    ELSE normal

\* canonical, lines 334-339.
normal_path(path) ==
    IF path = <<>> THEN <<47>>
    ELSE with_trailing_slash(path, ReplaceSlashes(normpath(path)))

\* canonical, lines 344-347: a host that is a number is resolved.
resolve(host) ==
    IF \/ isdigit(host)
       \/ /\ Len(host) >= 2 /\ host[1] = 48 /\ host[2] = 120
          /\ Find(host, 46) = 0
    THEN gethostbyname(host)
    ELSE [host |-> host, error |-> ""]

\* canonical, lines 350-357: the URL put together, or what was raised.
assemble(protocol, resolved, path, p, query, has_query) ==
    IF p.error # "" \/ resolved.error # ""
    THEN [url |-> <<>>, host |-> <<>>, path |-> <<>>, query |-> None,
          error |-> IF p.error # "" THEN p.error ELSE resolved.error]
    ELSE [url |-> protocol \o <<58, 47, 47>> \o quote(resolved.host)
                  \o (IF p.port # None THEN <<58>> \o p.port ELSE <<>>)
                  \o quote(path)
                  \o (IF has_query THEN <<63>> \o query ELSE <<>>),
          host |-> quote(resolved.host),
          path |-> quote(path),
          query |-> IF has_query THEN query ELSE None,
          error |-> ""]

\* A bug to tell the claims from: an empty query is dropped.
canonical_parts_drops_empty_query(url_parts, name, u) ==
    IF url_parts.error # "" \/ name = None
    THEN [url |-> <<>>, host |-> <<>>, path |-> <<>>, query |-> None,
          error |-> IF url_parts.error # "" THEN url_parts.error
                    ELSE "AttributeError"]
    ELSE assemble(url_parts.scheme,
                  resolve(lower(CollapseDots(StripOf(full_unescape(name),
                                                     {46})))),
                  normal_path(full_unescape(url_parts.path)),
                  port(url_parts.netloc),
                  url_parts.query,
                  url_parts.query # <<>>)

\* canonical, lines 328-357, of the parts of the URL.
canonical_parts(url_parts, name, u) ==
    IF url_parts.error # "" \/ name = None
    THEN [url |-> <<>>, host |-> <<>>, path |-> <<>>, query |-> None,
          error |-> IF url_parts.error # "" THEN url_parts.error
                    ELSE "AttributeError"]
    ELSE assemble(url_parts.scheme,
                  resolve(lower(CollapseDots(StripOf(full_unescape(name),
                                                     {46})))),
                  normal_path(full_unescape(url_parts.path)),
                  port(url_parts.netloc),
                  url_parts.query,
                  url_parts.query # <<>> \/ Find(u, 63) > 0)

\* canonical, lines 320-327, of the text quoted.
canonical_quoted(split) ==
    canonical_parts(split.parts, hostname(split.parts.netloc), split.url)

\* URL.canonical: the canonical URL, with its quoted host and path and its
\* query (None when it has none), or the exception raised on the way.
canonical(text) ==
    canonical_quoted(
        LET quoted == quote(full_unescape(
                Split(Delete(StripOf(text, {9, 10, 11, 12, 13, 32}),
                             {10, 13, 9}), 35)[1]))
        IN  with_scheme(urlsplit(quoted), quoted))

\* urllib.splittype: '^([^/:]+):' splits the scheme off.
splittype(u) ==
    LET stops == { i \in 1..Len(u) : u[i] \in {47, 58} }
        k == IF stops = {} THEN 0 ELSE CHOOSE i \in stops : \A j \in stops : i <= j
    IN  IF k > 1 /\ u[k] = 58
        THEN <<lower(SubSeq(u, 1, k - 1)), From(u, k + 1)>>
        ELSE <<None, u>>

\* urllib.splithost: '//([^/?]*)(.*)' splits the host off its path.
splithost(u) ==
    IF Len(u) >= 2 /\ u[1] = 47 /\ u[2] = 47
    THEN LET rest == From(u, 3)
             ends == { i \in 1..Len(rest) : rest[i] \in {47, 63} }
             delim == IF ends = {} THEN Len(rest) + 1
                      ELSE CHOOSE i \in ends : \A j \in ends : i <= j
             path == From(rest, delim)
         IN  <<SubSeq(rest, 1, delim - 1),
               IF path # <<>> /\ path[1] # 47 THEN <<47>> \o path ELSE path>>
    ELSE <<None, u>>

\* urllib.splituser: '^(.*)@(.*)$' splits at the last '@'.
splituser(host) ==
    LET i == RFind(host, 64)
    IN  IF i > 0 THEN <<SubSeq(host, 1, i - 1), From(host, i + 1)>>
        ELSE <<None, host>>

\* urllib.splitport: '^(.*):([0-9]*)$' splits a numeric port off.
splitport(host) ==
    LET i == RFind(host, 58)
        digits == From(host, i + 1)
    IN  IF i > 0 /\ \A k \in 1..Len(digits) : digits[k] \in Digits
        THEN <<SubSeq(host, 1, i - 1), IF digits = <<>> THEN None ELSE digits>>
        ELSE <<host, None>>

\* re.match(r'\d+\.\d+\.\d+\.\d+', host): the host begins with a dotted quad.
dotted_quad_match(host) ==
    LET parts == Split(host, 46)
    IN  /\ Len(parts) >= 4
        /\ \A k \in 1..3 : isdigit(parts[k])
        /\ parts[4] # <<>> /\ parts[4][1] \in Digits

\* url_host_permutations: the hosts yielded, in order.
url_host_permutations(host) ==
    LET parts == Split(host, 46)
        n == Len(parts)
        l == Min(n, 5)
    IN  IF dotted_quad_match(host) THEN <<host>>
        ELSE (IF l > 4 THEN <<host>> ELSE <<>>)
             \o [i \in 1..(l - 1) |-> JoinWith(SubSeq(parts, n - l + i, n), 46)]

\* curr_path after i rounds of the loop of url_path_permutations.
RECURSIVE curr_path(_, _)
curr_path(path_parts, i) ==
    IF i = 0 THEN <<>>
    ELSE curr_path(path_parts, i - 1) \o path_parts[i] \o <<47>>

\* url_path_permutations: the paths yielded, in order.
url_path_permutations(path) ==
    LET q == Find(path, 63)
        no_query == IF q > 0 THEN SubSeq(path, 1, q - 1) ELSE path
        pieces == Split(no_query, 47)
        path_parts == SubSeq(pieces, 1, Len(pieces) - 1)
    IN  (IF path # <<47>> THEN <<path>> ELSE <<>>)
        \o (IF q > 0 THEN <<no_query>> ELSE <<>>)
        \o [i \in 1..Min(4, Len(path_parts)) |-> curr_path(path_parts, i)]

\* The strings h + p for every h of hosts, in order, and every p of paths,
\* in order.
RECURSIVE host_major(_, _)
host_major(hosts, paths) ==
    IF hosts = <<>> THEN <<>>
    ELSE [i \in 1..Len(paths) |-> hosts[1] \o paths[i]]
         \o host_major(Tail(hosts), paths)

\* URL.url_permutations: the strings yielded, in order, or the exception of
\* a URL without '//'.
url_permutations(u) ==
    LET address_str == splittype(u)[2]
        host_path == splithost(address_str)
        host == StripOf(splitport(splituser(host_path[1])[2])[1], {47})
    IN  IF host_path[1] = None
        THEN [yielded |-> <<>>, error |-> "TypeError"]
        ELSE [yielded |-> host_major(url_host_permutations(host),
                                     url_path_permutations(host_path[2])),
              error |-> ""]

---------------------------------------------------------------------------
(* The state machine.                                                      *)

\* matching_prefixes and matching_full_hashes outside a lookup.
NoMatching == [prefixes |-> {}, full_hashes |-> {}]

\* The cache and the operations on it before the first of them.
FreshCache ==
    /\ db = EmptyDb
    /\ committed = EmptyDb
    /\ now = 0
    /\ pc = "idle"
    /\ pending = <<>>
    /\ outcome = "none"
    /\ ret = {}
    /\ calls = 0
    /\ arg = <<>>
    /\ url = {}
    /\ matched = NoMatching
    /\ owed = {}
    /\ prepass = EmptyDb
    /\ passLists = <<>>
    /\ delivered = <<>>
    /\ advertised = {}
    /\ lastFull = <<>>

\* BaseProtocolClient.__init__, lines 35-36.
FreshClient ==
    /\ next_call_timestamp = 0
    /\ error_count = 0
    /\ apiCalls = 0
    /\ lastCall = <<>>
    /\ gate = 0
    /\ streak = 0

\* SqliteStorage.__init__ on a path that holds no file: the cache is
\* initialised with the schema version of the library.
FreshFile ==
    /\ backend = "SqliteStorage"
    /\ schema = schema_version
    /\ opened = <<>>
    /\ called = <<>>
    /\ seen = <<>>

\* No URL object exists.
NoUrl ==
    /\ given = <<>>
    /\ canon = <<>>
    /\ deeper = <<>>
    /\ again = <<>>
    /\ perms = <<>>

\* SafeBrowsingList.__init__.
Init ==
    /\ FreshCache
    /\ platforms \in PlatformChoices
    /\ FreshClient
    /\ discard_fair_use_policy = FALSE
    /\ FreshFile
    /\ NoUrl

lookupVars == <<ret, calls, arg, url, matched, owed>>

\* The client object and the history of its calls.
transportVars == <<next_call_timestamp, error_count, discard_fair_use_policy,
                   apiCalls, lastCall, gate, streak>>

\* The stored cache and the history of its opening.
storageVars == <<backend, schema, opened, called, seen>>

\* The URL object and what was computed of it.
urlVars == <<given, canon, deeper, again, perms>>

\* What the steps on the cache leave alone.
offCache == <<transportVars, storageVars, urlVars>>

\* What the steps inside a pass leave alone.
inPassFrame == <<platforms, now, lookupVars, offCache>>

\* update_hash_prefix_cache, lines 45-46: cleanup_full_hashes(); commit().
\* The locals of the lookup before it are gone.  history: whether the run
\* keeps the history of its passes.
BeginPass(history) ==
    /\ pc = "idle"
    /\ LET s == commit(cleanup_full_hashes(db, now), committed)
       IN  db' = s[1] /\ committed' = s[2]
    /\ pc' = "discover"
    /\ outcome' = "none"
    /\ prepass' = IF history THEN committed ELSE prepass
    /\ passLists' = <<>>
    /\ pending' = <<>>
    /\ lastFull' = <<>>
    /\ ret' = {} /\ calls' = 0 /\ url' = {} /\ owed' = {}
    /\ arg' = <<>>
    /\ matched' = NoMatching
    /\ UNCHANGED <<delivered, advertised, platforms, now, offCache>>

\* update_hash_prefix_cache, lines 47-48: _sync_threat_lists(); commit().
DiscoverLists(server, history) ==
    /\ pc = "discover"
    /\ \E threat_lists \in server.lists :
         LET s == commit(sync_threat_lists(db, threat_lists, platforms), committed)
         IN  /\ db' = s[1]
             /\ committed' = s[2]
             /\ delivered' = [l \in DOMAIN delivered \cap DOMAIN s[2].threat_list
                                |-> delivered[l]]
             /\ advertised' = IF history THEN threat_lists ELSE advertised
    /\ pc' = "fetch"
    /\ UNCHANGED <<pending, outcome, prepass, passLists, lastFull, inPassFrame>>

\* _sync_hash_prefix_cache, lines 75-76: the update responses arrive.
FetchUpdates(history) ==
    /\ pc = "fetch"
    /\ \E order \in Orders(DOMAIN get_client_state(db)) :
         /\ pending' = order
         /\ passLists' = IF history THEN order ELSE passLists
    /\ pc' = "apply"
    /\ UNCHANGED <<db, committed, outcome, prepass, delivered, advertised,
                   lastFull, inPassFrame>>

\* An API call of the pass raises: except Exception: rollback(); raise.
TransportError ==
    /\ pc \in {"discover", "fetch"}
    /\ LET s == rollback(db, committed)
       IN  db' = s[1] /\ committed' = s[2]
    /\ pc' = "idle"
    /\ outcome' = "update:TransportError"
    /\ UNCHANGED <<pending, prepass, passLists, delivered, advertised, lastFull,
                   inPassFrame>>

\* _sync_hash_prefix_cache, lines 77-94: one turn of the loop.  It ends in
\* commit(), or in an exception that update_hash_prefix_cache answers with
\* rollback() before raising it again.
ApplyResponse(server, history) ==
    /\ pc = "apply"
    /\ pending # <<>>
    /\ \E response \in Responses(Head(pending), server) :
         LET r == sync_response(db, response, now)
             s == IF r.error = "" THEN commit(r.d, committed)
                                 ELSE rollback(r.d, committed)
         IN  /\ db' = s[1]
             /\ committed' = s[2]
             /\ IF r.error = ""
                THEN /\ pc' = "apply"
                     /\ outcome' = outcome
                     /\ pending' = Tail(pending)
                     /\ lastFull' =
                          IF ~history THEN lastFull
                          ELSE IF response.responseType = "FULL_UPDATE"
                          THEN << [threatList |-> response.threatList,
                                   additions |-> response.additions,
                                   newClientState |-> response.newClientState] >>
                          ELSE <<>>
                     /\ delivered' =
                          IF ~history THEN delivered ELSE
                          [l \in DOMAIN delivered \cup {response.threatList} |->
                             IF l = response.threatList
                             THEN [checksum |-> response.checksum,
                                   newClientState |-> response.newClientState]
                             ELSE delivered[l]]
                ELSE /\ pc' = "idle"
                     /\ outcome' = "update:" \o r.error
                     /\ UNCHANGED <<pending, delivered, lastFull>>
    /\ UNCHANGED <<prepass, passLists, advertised, inPassFrame>>

\* _sync_hash_prefix_cache returns: the loop is over.
FinishPass ==
    /\ pc = "apply"
    /\ pending = <<>>
    /\ pc' = "idle"
    /\ outcome' = "update:ok"
    /\ UNCHANGED <<db, committed, pending, prepass, passLists, delivered,
                   advertised, lastFull, inPassFrame>>

\* The process dies inside a pass: the connection is gone and with it the
\* open transaction; the next process opens the committed state.
Crash ==
    /\ pc \in {"discover", "fetch", "apply"}
    /\ db' = committed
    /\ pc' = "idle"
    /\ outcome' = "update:crash"
    /\ UNCHANGED <<committed, pending, prepass, passLists, delivered, advertised,
                   lastFull, inPassFrame>>

\* lookup_url, lines 127-128: if not url.strip(): raise ValueError.
EmptyInput ==
    /\ pc = "idle"
    /\ \E text \in UrlInputs :
         /\ strip(text) = <<>>
         /\ arg' = text
    /\ outcome' = "lookup:ValueError"
    /\ ret' = {} /\ calls' = 0 /\ url' = {} /\ owed' = {}
    /\ matched' = NoMatching
    /\ UNCHANGED <<db, committed, pc, platforms, now, pending, prepass,
                   passLists, delivered, advertised, lastFull, offCache>>

\* lookup_url up to its first return or to the call of fullHashes.find:
\* the answer from the storage is committed and returned.
LookupUrl ==
    /\ pc = "idle"
    /\ \E text \in UrlInputs :
         LET u == url_hashes(text)
             l == lookup_local(db, u, now)
         IN  /\ strip(text) # <<>>
             /\ arg' = text
             /\ url' = u
             /\ matched' = IF l.answered THEN NoMatching ELSE l.m
             /\ owed' = IF l.answered /\ u = url THEN owed ELSE {}
             /\ IF l.answered
                THEN /\ ret' = l.result
                     /\ calls' = 0
                     /\ pc' = "idle"
                     /\ outcome' = "lookup:ok"
                     /\ LET s == commit(db, committed)
                        IN  db' = s[1] /\ committed' = s[2]
                ELSE /\ ret' = {}
                     /\ calls' = 1
                     /\ pc' = "find"
                     /\ outcome' = "none"
                     /\ UNCHANGED <<db, committed>>
    /\ UNCHANGED <<platforms, now, pending, prepass, passLists, delivered,
                   advertised, lastFull, offCache>>

\* _sync_full_hashes gets its reply; _lookup_hashes repeats the lookup of
\* the full hashes; lookup_url commits and returns, or rolls back and
\* raises.
FullHashesReply ==
    /\ pc = "find"
    /\ \E fh_response \in
            FullHashResponses({ row[1] : row \in matched.prefixes }) :
         LET r == sync_full_hashes(db, { row[1] : row \in matched.prefixes },
                                   fh_response, now)
             result == unexpired(lookup_full_hashes(r.d, matched.full_hashes, now))
             s == IF r.error = "" THEN commit(r.d, committed)
                                 ELSE rollback(r.d, committed)
         IN  /\ db' = s[1]
             /\ committed' = s[2]
             /\ owed' = { m.threatList :
                            m \in { x \in fh_response.matches :
                                      /\ x.hash \in url
                                      /\ x.cacheDuration.secs > 0 } }
             /\ IF r.error = ""
                THEN /\ ret' = result
                     /\ pc' = after_sync_full_hashes(result)
                     /\ calls' = IF pc' = "find" THEN calls + 1 ELSE calls
                     /\ outcome' = IF pc' = "find" THEN outcome ELSE "lookup:ok"
                ELSE /\ ret' = {}
                     /\ pc' = "idle"
                     /\ calls' = calls
                     /\ outcome' = "lookup:" \o r.error
    /\ UNCHANGED <<platforms, now, arg, url, matched, pending, prepass,
                   passLists, delivered, advertised, lastFull, offCache>>

\* get_full_hashes raises: except Exception: rollback(); raise.
FullHashesError ==
    /\ pc = "find"
    /\ LET s == rollback(db, committed)
       IN  db' = s[1] /\ committed' = s[2]
    /\ pc' = "idle"
    /\ ret' = {}
    /\ outcome' = "lookup:TransportError"
    /\ matched' = NoMatching
    /\ UNCHANGED <<platforms, now, calls, arg, url, owed, pending, prepass,
                   passLists, delivered, advertised, lastFull, offCache>>

\* A second of current_timestamp passes, between two operations or while
\* a lookup waits for the reply of fullHashes.find.
Tick ==
    /\ now < MaxTime
    /\ pc \in {"idle", "find"}
    /\ now' = now + 1
    /\ UNCHANGED <<db, committed, platforms, pc, pending, outcome,
                   lookupVars, prepass, passLists, delivered, advertised,
                   lastFull, offCache>>

\* One API call of SafeBrowsingList (client.py, lines 55-59, 74-76 and
\* 102-103): fair_use_delay(), then the request.  An exception of the call
\* goes through update_hash_prefix_cache or lookup_url to their caller
\* (lines 50-52 and 133-135).  idle: the seconds since the call before.
ApiCall(type) ==
    /\ pc = "idle"
    /\ apiCalls < MaxCalls
    /\ \E idle \in IdlePool, r \in RandintPool, status \in Statuses,
          wait \in WaitPool :
         LET slept == sleep(fair_use_delay(error_count, next_call_timestamp,
                                           now + idle, r),
                            discard_fair_use_policy)
             t == now + idle + slept
             a == apiCall(error_count, status)
         IN  /\ status # "200" => wait = <<>>
             /\ now' = t
             /\ error_count' = a.error_count
             /\ next_call_timestamp' =
                  IF wait # <<>> THEN set_next_call_timeout(t, wait[1])
                                 ELSE next_call_timestamp
             /\ gate' = IF wait # <<>> /\ t + wait[1] > gate
                        THEN t + wait[1] ELSE gate
             /\ streak' = IF status = "503" THEN streak + 1
                          ELSE IF status = "URLError" THEN streak
                          ELSE 0
             /\ lastCall' = << [type |-> type, slept |-> slept, at |-> t,
                                status |-> status,
                                raised |-> Raised(type, a, wait),
                                wait |-> wait,
                                gate |-> gate, streak |-> streak,
                                after |-> IF lastCall = <<>> THEN ""
                                          ELSE lastCall[1].status] >>
             /\ outcome' =
                  IF Raised(type, a, wait) = "" THEN "none"
                  ELSE IF type = "fullHashes.find"
                  THEN "lookup:" \o Raised(type, a, wait)
                  ELSE "update:" \o Raised(type, a, wait)
    /\ apiCalls' = apiCalls + 1
    /\ UNCHANGED <<db, committed, platforms, pc, pending, lookupVars, prepass,
                   passLists, delivered, advertised, lastFull,
                   discard_fair_use_policy, storageVars, urlVars>>

\* A client object as constructed, throttled or not.
InitTransport ==
    /\ FreshCache
    /\ platforms = [is_none |-> TRUE, list |-> {}]
    /\ FreshClient
    /\ discard_fair_use_policy \in BOOLEAN
    /\ FreshFile
    /\ NoUrl

NextTransport ==
    \/ ApiCall("threatLists.list")
    \/ ApiCall("threatListUpdates.fetch")
    \/ ApiCall("fullHashes.find")

\* The API calls of one client object, one after another.
SpecTransport == InitTransport /\ [][NextTransport]_vars

\* Contents of a stored cache: a list, prefixes and full hashes.
StoredContents ==
    LET tl == <<"MALWARE", "WINDOWS", "URL">>
    IN  [ threat_list : { <<>>, tl :> NULL, tl :> "s1" },
          hash_prefix : SUBSET { [value |-> P1, list |-> tl, neg |-> 0],
                                 [value |-> P2, list |-> tl, neg |-> 0] },
          full_hash : SUBSET { [value |-> H1, list |-> tl, exp |-> 1],
                               [value |-> H2, list |-> tl, exp |-> 1] } ]

\* SqliteStorage(db_path) or MySQLStorage(config): the constructor, whole.
Open ==
    /\ pc = "closed"
    /\ LET r == IF backend = "SqliteStorage"
                THEN SqliteStorage(schema, committed)
                ELSE MySQLStorage(schema, committed)
       IN  /\ schema' = r.schema
           /\ committed' = r.d
           /\ db' = r.d
           /\ pc' = IF r.raised = "" THEN "idle" ELSE "closed"
           /\ outcome' = IF r.raised = "" THEN "open:ok"
                         ELSE "open:" \o r.raised
    /\ opened' = << [schema |-> schema, d |-> committed] >>
    /\ UNCHANGED <<backend, called, seen, platforms, now, pending, lookupVars,
                   prepass, passLists, delivered, advertised, lastFull,
                   transportVars, urlVars>>

\* The process that opened the cache ends.
Close ==
    /\ pc = "idle"
    /\ pc' = "closed"
    /\ db' = committed
    /\ outcome' = "none"
    /\ UNCHANGED <<committed, platforms, now, pending, lookupVars, prepass,
                   passLists, delivered, advertised, lastFull, offCache>>

\* The process dies inside init_db: CREATE TABLE metadata is not part of
\* a transaction, the INSERT of the version is, so the table may be left
\* without the row.
InitDies ==
    /\ pc = "closed"
    /\ IF backend = "SqliteStorage"
       THEN schema = "absent" \/ check_schema_version(schema) = "False"
       ELSE ~check_schema_exists(schema)
    /\ schema' \in {"empty", "no_row"}
    /\ committed' = IF backend = "SqliteStorage" THEN EmptyDb ELSE committed
    /\ db' = committed'
    /\ outcome' = "open:died"
    /\ UNCHANGED <<backend, opened, called, seen, pc, platforms, now, pending,
                   lookupVars, prepass, passLists, delivered, advertised, lastFull,
                   transportVars, urlVars>>

\* A cache as an earlier process may have left it, of this version of the
\* library or of another, or none.
InitOpen ==
    /\ backend \in {"SqliteStorage", "MySQLStorage"}
    /\ schema \in {"absent", "empty", "1.0", schema_version}
    /\ committed \in StoredContents
    /\ schema \in {"absent", "empty"} => committed = EmptyDb
    /\ db = committed
    /\ now = 0
    /\ pc = "closed"
    /\ pending = <<>>
    /\ outcome = "none"
    /\ ret = {}
    /\ calls = 0
    /\ arg = <<>>
    /\ url = {}
    /\ matched = NoMatching
    /\ owed = {}
    /\ prepass = EmptyDb
    /\ passLists = <<>>
    /\ delivered = <<>>
    /\ advertised = {}
    /\ lastFull = <<>>
    /\ platforms = [is_none |-> TRUE, list |-> {}]
    /\ FreshClient
    /\ discard_fair_use_policy = FALSE
    /\ opened = <<>>
    /\ called = <<>>
    /\ seen = <<>>
    /\ NoUrl

NextOpen ==
    \/ Open
    \/ Close
    \/ InitDies

\* Processes that open the stored cache, one after another.
SpecOpen == InitOpen /\ [][NextOpen]_vars

\* The hosts of the URLs tried: k labels for every k up to MaxLabels, and
\* hosts that are an address, begin with one, are a number (16, 0x10,
\* 0xc37f000b, 2^32 - 1), look like one (0x1g, 2^32), carry a port or a
\* user, are written with escapes, capitals or stray dots, or are empty.
LabelNames == <<"a", "b", "c", "d", "e", "f", "g", "h">>

LabelHost(k) == JoinWith([i \in 1..k |-> Str(<<LabelNames[i]>>)], 46)

HostTexts ==
    { LabelHost(k) : k \in 1..MaxLabels }
    \cup { Str(<<"1", ".", "2", ".", "3", ".", "4">>),
           Str(<<"1", ".", "2", ".", "3", ".", "4", ".", "a", ".", "b">>),
           Str(<<"[", ":", ":", "1", "]">>),
           Str(<<".">>),
           Str(<<"A", ".", "b", ".", ".", "c", ".">>),
           Str(<<"1", "6">>),
           Str(<<"0", "x", "1", "0">>),
           Str(<<"0", "x", "c", "3", "7", "f", "0", "0", "0", "b">>),
           Str(<<"0", "x", "1", "g">>),
           <<52, 50, 57, 52, 57, 54, 55, 50, 57, 53>>,
           <<52, 50, 57, 52, 57, 54, 55, 50, 57, 54>>,
           Str(<<"a", ".", "b", ":", "8", "0">>),
           Str(<<"a", "@", "a", ".", "b">>),
           Str(<<"%", "4", "1", ".", "b">>),
           <<>> }

\* The paths, queries and fragments of the URLs tried; /x%3Fy is written
\* by its codes.
PathTexts ==
    { <<>>,
      Str(<<"/">>),
      Str(<<"/", "1", "/", "2", ".", "h", "t", "?", "x">>),
      Str(<<"/", "1", "/", "2", "/">>),
      Str(<<"/", "1", "/", "2", "/", "3", "/", "4", "/", "5", "/", "6", ".",
            "h", "t">>),
      Str(<<"/", "%", "2", "5", "%", "3", "2", "%", "3", "5">>),
      Str(<<"/", "%", "2", "5", "2", "5", "2", "5", "2", "5", "2", "5", "2",
            "5", "2", "5", "2", "5">>),
      Str(<<"/", "a", "/", ".", ".", "/", "b", "/", ".", "/", "c", "/", "/",
            "d">>),
      Str(<<"/", "a", " ", "b", "#", "f">>),
      Str(<<"/", "x", "?">>),
      <<47, 120, 37, 51, 70, 121>>,
      Str(<<"/", "a", "#", "?">>),
      <<47, 128, 37, 55, 102, 1>>,
      Str(<<"/", "%", "4", "1", "%", "2", "5", "4", "1", "\t", "/">>) }

\* The texts URL objects are made of: with a scheme, without one, or with
\* the two slashes only.
UrlTexts ==
    { scheme \o host \o path :
        scheme \in { Str(<<"h", "t", "t", "p", ":", "/", "/">>),
                     Str(<<"f", "t", "p", ":", "/", "/">>),
                     Str(<<"/", "/">>),
                     <<>> },
        host \in HostTexts, path \in PathTexts }

\* The text with every '%' escaped once more.
RECURSIVE Escape(_)
Escape(s) ==
    IF s = <<>> THEN <<>>
    ELSE (IF s[1] = 37 THEN <<37, 50, 53>> ELSE <<s[1]>>) \o Escape(Tail(s))

\* URL(url), line 299.
NewUrl ==
    /\ pc = "idle"
    /\ \E text \in UrlTexts : given' = text
    /\ pc' = "URL"
    /\ UNCHANGED <<db, committed, platforms, now, pending, outcome, lookupVars,
                   prepass, passLists, delivered, advertised, lastFull,
                   transportVars, storageVars, canon, deeper, again, perms>>

\* URL(url).canonical
Canonical ==
    /\ pc = "URL"
    /\ canon' = canonical(given)
    /\ pc' = "canonical"
    /\ outcome' = IF canon'.error = "" THEN "none"
                  ELSE "canonical:" \o canon'.error
    /\ UNCHANGED <<db, committed, platforms, now, pending, lookupVars, prepass,
                   passLists, delivered, advertised, lastFull, transportVars,
                   storageVars, given, deeper, again, perms>>

\* URL(escaped).canonical, escaped being the same text escaped once more.
CanonicalEscaped ==
    /\ pc = "canonical"
    /\ deeper' = canonical(Escape(given))
    /\ pc' = "escaped"
    /\ UNCHANGED <<db, committed, platforms, now, pending, outcome, lookupVars,
                   prepass, passLists, delivered, advertised, lastFull,
                   transportVars, storageVars, given, canon, again, perms>>

\* URL(URL(url).canonical).canonical
Recanonicalize ==
    /\ pc = "canonical"
    /\ canon.error = ""
    /\ again' = canonical(canon.url)
    /\ pc' = "recanonical"
    /\ outcome' = IF again'.error = "" THEN "none"
                  ELSE "canonical:" \o again'.error
    /\ UNCHANGED <<db, committed, platforms, now, pending, lookupVars, prepass,
                   passLists, delivered, advertised, lastFull, transportVars,
                   storageVars, given, canon, deeper, perms>>

\* URL.hashes, lines 303-306: the permutations of the canonical URL, which
\* are hashed one by one.
Hashes ==
    /\ pc = "canonical"
    /\ canon.error = ""
    /\ LET p == url_permutations(canon.url)
       IN  /\ perms' = p.yielded
           /\ outcome' = IF p.error = "" THEN "none" ELSE "hashes:" \o p.error
    /\ pc' = "hashes"
    /\ UNCHANGED <<db, committed, platforms, now, pending, lookupVars, prepass,
                   passLists, delivered, advertised, lastFull, transportVars,
                   storageVars, given, canon, deeper, again>>

InitUrl ==
    /\ FreshCache
    /\ platforms = [is_none |-> TRUE, list |-> {}]
    /\ FreshClient
    /\ discard_fair_use_policy = FALSE
    /\ FreshFile
    /\ NoUrl

NextUrl ==
    \/ NewUrl
    \/ Canonical
    \/ CanonicalEscaped
    \/ Recanonicalize
    \/ Hashes

SpecUrl == InitUrl /\ [][NextUrl]_vars

---------------------------------------------------------------------------
(* gglsbl/storage.py: the operations of SqliteStorage called one by one,   *)
(* as a program that uses the storage class on its own may call them.      *)

\* hash_prefix_list arguments: one prefix, two, the same prefix twice.
PrefixListPool == { <<P1>>, <<P2, P1>>, <<P1, P1>> }

\* indices arguments.
IndicesPool == { {0}, {1} }

\* cache_duration arguments, in seconds.
CacheSeconds == { 0, 1 }

\* The storage operations called so far.
CallsMade == IF called = <<>> THEN 0 ELSE called[1].n

\* What is recorded of a call.
Call(op, tl, values, indices, duration, error) ==
    << [op |-> op, list |-> tl, values |-> values, indices |-> indices,
        duration |-> duration, at |-> now, error |-> error,
        n |-> CallsMade + 1] >>

\* A storage operation is called on the open storage.
CanCall == pc = "idle" /\ CallsMade < MaxOps

\* What a storage operation called on its own leaves alone.
storageCallFrame ==
    <<platforms, now, pc, pending, outcome, lookupVars, prepass, passLists,
      delivered, advertised, lastFull, transportVars, backend, schema, opened,
      seen, urlVars>>

CallAddThreatList ==
    /\ CanCall
    /\ \E tl \in ThreatLists :
         /\ db' = add_threat_list(db, tl)
         /\ called' = Call("add_threat_list", tl, <<>>, {}, 0, "")
    /\ UNCHANGED <<committed, storageCallFrame>>

CallDeleteThreatList ==
    /\ CanCall
    /\ \E tl \in ThreatLists :
         /\ db' = delete_threat_list(db, tl)
         /\ called' = Call("delete_threat_list", tl, <<>>, {}, 0, "")
    /\ UNCHANGED <<committed, storageCallFrame>>

CallPopulateHashPrefixList ==
    /\ CanCall
    /\ \E tl \in ThreatLists, hash_prefix_list \in PrefixListPool :
         LET r == populate_hash_prefix_list(db, tl, hash_prefix_list, now)
         IN  /\ db' = r.d
             /\ called' = Call("populate_hash_prefix_list", tl,
                               hash_prefix_list, {}, 0, r.error)
    /\ UNCHANGED <<committed, storageCallFrame>>

\* MySQLStorage.remove_hash_prefix_indices (storageMySQL.py, lines
\* 293-322): get_hash_prefix_values_to_remove reads av[i] for every index
\* of the set, which raises IndexError for an index at or beyond the
\* number of rows of the list, before anything is deleted.
MySQLStorage_remove_hash_prefix_indices(d, tl, indices) ==
    LET av == SortedValues(ListValues(d, tl))
    IN  IF \E i \in indices : i >= Len(av)
        THEN [d |-> d, error |-> "IndexError"]
        ELSE [d |-> [d EXCEPT !.hash_prefix =
                        { r \in d.hash_prefix :
                            ~(r.list = tl
                              /\ \E i \in indices : r.value = av[i + 1]) }],
              error |-> ""]

CallRemoveHashPrefixIndices ==
    /\ CanCall
    /\ \E tl \in ThreatLists, indices \in IndicesPool :
         /\ db' = remove_hash_prefix_indices(db, tl, indices)
         /\ called' = Call("remove_hash_prefix_indices", tl, <<>>, indices,
                           0, "")
    /\ UNCHANGED <<committed, storageCallFrame>>

CallDeleteHashPrefixList ==
    /\ CanCall
    /\ \E tl \in ThreatLists :
         /\ db' = delete_hash_prefix_list(db, tl)
         /\ called' = Call("delete_hash_prefix_list", tl, <<>>, {}, 0, "")
    /\ UNCHANGED <<committed, storageCallFrame>>

CallStoreFullHash ==
    /\ CanCall
    /\ \E tl \in ThreatLists, cache_duration \in CacheSeconds :
         /\ db' = store_full_hash(db, tl, H1, cache_duration, now)
         /\ called' = Call("store_full_hash", tl, <<H1>>, {}, cache_duration,
                           "")
    /\ UNCHANGED <<committed, storageCallFrame>>

CallCommit ==
    /\ CanCall
    /\ LET s == commit(db, committed)
       IN  db' = s[1] /\ committed' = s[2]
    /\ called' = Call("commit", <<>>, <<>>, {}, 0, "")
    /\ UNCHANGED storageCallFrame

CallRollback ==
    /\ CanCall
    /\ LET s == rollback(db, committed)
       IN  db' = s[1] /\ committed' = s[2]
    /\ called' = Call("rollback", <<>>, <<>>, {}, 0, "")
    /\ UNCHANGED storageCallFrame

InitStorage ==
    /\ FreshCache
    /\ platforms = [is_none |-> TRUE, list |-> {}]
    /\ FreshClient
    /\ discard_fair_use_policy = FALSE
    /\ FreshFile
    /\ NoUrl

NextStorage ==
    \/ CallAddThreatList
    \/ CallDeleteThreatList
    \/ CallPopulateHashPrefixList
    \/ CallRemoveHashPrefixIndices
    \/ CallDeleteHashPrefixList
    \/ CallStoreFullHash
    \/ CallCommit
    \/ CallRollback
    \/ Tick

\* Calls of the storage operations in any order on a fresh cache.
SpecStorage == InitStorage /\ [][NextStorage]_vars

---------------------------------------------------------------------------
(* Update passes over a cache that holds full hashes of earlier lookups.   *)

\* expires_at of the stored full hashes, in seconds from the start of the
\* process: expired for longer than keep_expired_for, for exactly that
\* long, for a second less, and not expired.
StoredExpiries ==
    { 0 - (keep_expired_for + 1), 0 - keep_expired_for,
      0 - (keep_expired_for - 1), 1 }

\* What the server of the update passes of SpecPurge may send.
PurgeServer ==
    [ lists |-> {ThreatLists},
      additions |-> { <<>>, <<Addition(4, P1)>> },
      removals |-> {<<>>},
      checksums |-> Checksums({P1}),
      states |-> {"s1"} ]

\* A cache as earlier lookups have left it.
InitPurge ==
    /\ \E e1 \in StoredExpiries, e2 \in StoredExpiries :
         db = [EmptyDb EXCEPT !.full_hash =
                 { [value |-> H1, list |-> <<"MALWARE", "WINDOWS", "URL">>,
                    exp |-> e1],
                   [value |-> H2, list |-> <<"MALWARE", "WINDOWS", "URL">>,
                    exp |-> e2] }]
    /\ committed = db
    /\ prepass = EmptyDb
    /\ now = 0
    /\ pc = "idle"
    /\ pending = <<>>
    /\ outcome = "none"
    /\ ret = {} /\ calls = 0 /\ arg = <<>> /\ url = {}
    /\ matched = NoMatching
    /\ owed = {}
    /\ passLists = <<>>
    /\ delivered = <<>>
    /\ advertised = {}
    /\ lastFull = <<>>
    /\ platforms = [is_none |-> TRUE, list |-> {}]
    /\ FreshClient
    /\ discard_fair_use_policy = FALSE
    /\ FreshFile
    /\ NoUrl

NextPurge ==
    \/ BeginPass(TRUE)
    \/ DiscoverLists(PurgeServer, TRUE)
    \/ FetchUpdates(TRUE)
    \/ TransportError
    \/ ApplyResponse(PurgeServer, TRUE)
    \/ FinishPass
    \/ Crash
    \/ Tick

\* Update passes, one after another while time passes, over a cache with
\* full hashes.
SpecPurge == InitPurge /\ [][NextPurge]_vars

---------------------------------------------------------------------------
(* gglsbl/protocol.py: a FullHashProtocolClient object and its caller.     *)

\* fair_use_delay() and then getHashes(), as a caller that keeps to the
\* request frequency policy makes them; when fair_use_delay raises, no
\* request is sent.  idle: the seconds since the call before.
GetHashes ==
    /\ pc = "idle"
    /\ apiCalls < MaxCalls
    /\ \E idle \in IdlePool, status \in Statuses :
         LET f == FullHashProtocolClient_fair_use_delay(
                      error_count, next_call_timestamp, now + idle)
             a == IF f.raised # ""
                  THEN [error_count |-> error_count, raised |-> f.raised]
                  ELSE apiCall(error_count, status)
         IN  /\ now' = now + idle
             /\ error_count' = a.error_count
             /\ streak' = IF f.raised # "" \/ status = "URLError" THEN streak
                          ELSE IF status = "503" THEN streak + 1
                          ELSE 0
             /\ lastCall' = << [type |-> "gethash", delay |-> f.delay,
                                slept |-> 0, at |-> now + idle,
                                status |-> IF f.raised # "" THEN "none"
                                           ELSE status,
                                raised |-> a.raised,
                                gate |-> gate, streak |-> streak,
                                after |-> IF lastCall = <<>> THEN ""
                                          ELSE lastCall[1].status] >>
             /\ outcome' = IF a.raised = "" THEN "none"
                           ELSE "gethash:" \o a.raised
    /\ apiCalls' = apiCalls + 1
    /\ UNCHANGED <<db, committed, platforms, pc, pending, lookupVars, prepass,
                   passLists, delivered, advertised, lastFull,
                   next_call_timestamp, gate, discard_fair_use_policy,
                   storageVars, urlVars>>

NextFullHash ==
    \/ GetHashes

\* The calls of one FullHashProtocolClient, throttled or not.
SpecFullHash == InitTransport /\ [][NextFullHash]_vars

---------------------------------------------------------------------------
(* Update passes that a KeyboardInterrupt may end (SIGINT is raised as     *)
(* KeyboardInterrupt between any two bytecodes of the main thread).        *)

\* The working states in which a turn of the loop of
\* _sync_hash_prefix_cache may be interrupted: before it wrote, after
\* delete_hash_prefix_list, after the removals, after the additions.
InterruptedStates(d, response, t) ==
    LET tl == response.threatList
        d1 == ApplyResponseType(d, response)
        d2 == ApplyRemovals(d1, tl, response.removals)
    IN  {d, d1, d2, ApplyAdditions(d2, tl, response.additions, t).d}

\* update_hash_prefix_cache, lines 50-52: `except Exception` does not
\* match KeyboardInterrupt, a BaseException, so rollback() is not called
\* and the exception leaves with the transaction open.
except_Exception(d, c) == <<d, c>>

\* KeyboardInterrupt inside a pass.
Interrupt(server) ==
    /\ pc \in {"discover", "fetch", "apply"}
    /\ \E d \in IF pc = "apply" /\ pending # <<>>
                 THEN UNION { InterruptedStates(db, response, now) :
                                response \in Responses(Head(pending), server) }
                 ELSE {db} :
         LET s == except_Exception(d, committed)
         IN  db' = s[1] /\ committed' = s[2]
    /\ pc' = "idle"
    /\ outcome' = "update:KeyboardInterrupt"
    /\ UNCHANGED <<pending, prepass, passLists, delivered, advertised,
                   lastFull, inPassFrame>>

\* run_sync, lines 66-68: sys.exit(0) ends the process; the connection
\* is closed with its transaction open, and SQLite drops the transaction.
\* The next process opens the committed state.
SysExit ==
    /\ pc = "idle"
    /\ outcome = "update:KeyboardInterrupt"
    /\ db' = committed
    /\ outcome' = "exit"
    /\ UNCHANGED <<committed, pc, pending, prepass, passLists, delivered,
                   advertised, lastFull, inPassFrame>>

NextInterrupt ==
    \/ BeginPass(TRUE)
    \/ DiscoverLists(PurgeServer, TRUE)
    \/ FetchUpdates(TRUE)
    \/ TransportError
    \/ ApplyResponse(PurgeServer, TRUE)
    \/ FinishPass
    \/ Interrupt(PurgeServer)
    \/ SysExit

\* Update passes of a caller that goes on after a KeyboardInterrupt, or
\* exits as run_sync does.
SpecInterrupt == Init /\ [][NextInterrupt]_vars

\* ---- lookup_url of another process while update passes run ----

\* What the server of the update passes of SpecSnapshot sends: one list,
\* its one prefix, the checksum of it.
SnapshotServer ==
    [ lists |-> {FullHashLists},
      additions |-> { <<Addition(4, P1)>> },
      removals |-> {<<>>},
      checksums |-> { sha256(Join(SortedValues({P1}))) },
      states |-> {"s1"} ]

\* The cache of SpecSnapshot: a list with the prefix of H1, its negative
\* cache expired or not, and a full hash of it that an earlier lookup stored.
InitSnapshot ==
    /\ \E e \in StoredExpiries, neg \in { 0 - 1, 1 } :
         db = [threat_list |-> (<<"MALWARE", "WINDOWS", "URL">> :> "s0"),
               hash_prefix |->
                 { [value |-> P1, list |-> <<"MALWARE", "WINDOWS", "URL">>,
                    neg |-> neg] },
               full_hash |->
                 { [value |-> H1, list |-> <<"MALWARE", "WINDOWS", "URL">>,
                    exp |-> e] }]
    /\ committed = db
    /\ prepass = EmptyDb
    /\ now = 0
    /\ pc = "idle"
    /\ pending = <<>>
    /\ outcome = "none"
    /\ ret = {} /\ calls = 0 /\ arg = <<>> /\ url = {}
    /\ matched = NoMatching
    /\ owed = {}
    /\ passLists = <<>>
    /\ delivered = <<>>
    /\ advertised = {}
    /\ lastFull = <<>>
    /\ platforms = [is_none |-> TRUE, list |-> {}]
    /\ FreshClient
    /\ discard_fair_use_policy = FALSE
    /\ FreshFile
    /\ NoUrl

\* One read of the other process's lookup: the storage call, the locals
\* of _lookup_hashes, the rows of full_hash the call returned, the reply
\* of fullHashes.find stored before it (none: <<>>), the file as the call
\* found it, the step _lookup_hashes takes next, and the number of the
\* lookup.
Read(call, u, m, rows, own, next) ==
    [read |-> call, url |-> u, m |-> m, rows |-> rows, own |-> own,
     file |-> committed, next |-> next,
     n |-> IF call = "lookup_hash_prefix" /\ Len(seen) > 0
           THEN seen[1].n + 1 ELSE IF Len(seen) > 0 THEN seen[1].n ELSE 1]

\* The step the lookup of the other process takes next; it holds no
\* lookup half done.
NextRead == IF Len(seen) = 0 THEN "return" ELSE seen[Len(seen)].next

NoLookup ==
    /\ NextRead = "return"
    /\ Len(seen) > 0 => seen[1].n < MaxLookups

\* The process of the update passes holds no transaction open: its
\* operations write and commit in one step.
snapshotFrame ==
    UNCHANGED <<db, committed, pc, pending, prepass, passLists, delivered,
                advertised, lastFull, outcome, platforms, now, lookupVars,
                transportVars, backend, schema, opened, called, urlVars>>

\* _lookup_hashes up to its first return: lookup_hash_prefix is a SELECT
\* on a connection that has begun no transaction, it reads the file as the
\* last commit of any process left it.
ReadPrefixes ==
    /\ NoLookup
    /\ \E u \in UrlPool :
         LET m == matching(committed, u, now)
         IN  seen' = <<Read("lookup_hash_prefix", u, m, {}, <<>>,
                            IF m.prefixes = {} THEN "return"
                            ELSE "lookup_full_hashes")>>
    /\ snapshotFrame

\* The first lookup_full_hashes of _lookup_hashes, a SELECT of its own.
ReadFullHashes ==
    /\ NextRead = "lookup_full_hashes"
    /\ LET m == seen[1].m
           rows == lookup_full_hashes(committed, m.full_hashes, now)
       IN  seen' = Append(seen,
                     Read("lookup_full_hashes", seen[1].url, m, rows, <<>>,
                          IF unexpired(rows) # {} \/ negative_cache_hit(m, rows)
                          THEN "return" ELSE "sync_full_hashes"))
    /\ snapshotFrame

\* _sync_full_hashes, the second lookup_full_hashes and the commit of
\* lookup_url: the first write begins the transaction on the file as it
\* is by then.
SyncAndRead ==
    /\ NextRead = "sync_full_hashes"
    /\ db = committed
    /\ \E fh_response \in
            FullHashResponses({ row[1] : row \in seen[1].m.prefixes }) :
         LET m == seen[1].m
             r == sync_full_hashes(committed,
                                   { row[1] : row \in m.prefixes },
                                   fh_response, now)
             rows == lookup_full_hashes(r.d, m.full_hashes, now)
         IN  /\ r.error = ""
             /\ seen' = Append(seen,
                          Read("lookup_full_hashes", seen[1].url, m, rows,
                               <<fh_response>>, "return"))
             /\ db' = r.d
             /\ committed' = r.d
    /\ UNCHANGED <<pc, pending, prepass, passLists, delivered, advertised,
                   lastFull, outcome, platforms, now, lookupVars,
                   transportVars, backend, schema, opened, called, urlVars>>

NextSnapshot ==
    \/ BeginPass(FALSE)
    \/ DiscoverLists(SnapshotServer, FALSE)
    \/ FetchUpdates(FALSE)
    \/ TransportError
    \/ ApplyResponse(SnapshotServer, FALSE)
    \/ FinishPass
    \/ ReadPrefixes
    \/ ReadFullHashes
    \/ SyncAndRead

\* Update passes in one process and lookups in another, on one file.
SpecSnapshot == InitSnapshot /\ [][NextSnapshot]_vars

\* ---- bin/gglsbl_client.py: the long-running sync loop ----

\* run_sync, lines 63-71, by the way update_hash_prefix_cache ended:
\* KeyboardInterrupt and SystemExit end in sys.exit(0), any other exception
\* in log.exception and time.sleep(3), and run_sync returns to the loop.
run_sync_exits(o) ==
    IF o \in {"none", "update:ok", "run_sync:slept", "exit"} THEN "return"
    ELSE "sys.exit"

run_sync(o) ==
    IF o = "update:KeyboardInterrupt" THEN "sys.exit"
    ELSE IF o \in {"none", "update:ok", "run_sync:slept", "exit"} THEN "return"
    ELSE "time.sleep"

\* main, lines 93-94: while True: run_sync(sbl).  The next pass begins
\* when run_sync has returned.
RunSync ==
    /\ outcome # "exit"
    /\ run_sync(outcome) = "return"
    /\ BeginPass(TRUE)

\* run_sync, lines 69-71: the pass raised, the loop sleeps 3 seconds.
RunSyncSleeps ==
    /\ pc = "idle"
    /\ run_sync(outcome) = "time.sleep"
    /\ now + 3 <= 3 * MaxTime
    /\ now' = now + 3
    /\ outcome' = "run_sync:slept"
    /\ UNCHANGED <<db, committed, platforms, pc, pending, lookupVars, prepass,
                   passLists, delivered, advertised, lastFull, offCache>>

\* run_sync, lines 66-68: sys.exit(0); the process ends, the open
\* transaction is dropped with the connection.
RunSyncExits ==
    /\ pc = "idle"
    /\ run_sync(outcome) = "sys.exit"
    /\ db' = committed
    /\ outcome' = "exit"
    /\ UNCHANGED <<committed, pc, pending, prepass, passLists, delivered,
                   advertised, lastFull, inPassFrame>>

NextLoop ==
    \/ RunSync
    \/ DiscoverLists(PurgeServer, TRUE)
    \/ FetchUpdates(TRUE)
    \/ TransportError
    \/ ApplyResponse(PurgeServer, TRUE)
    \/ FinishPass
    \/ Interrupt(PurgeServer)
    \/ RunSyncSleeps
    \/ RunSyncExits

\* The sync loop of gglsbl_client.py without --onetime.
SpecLoop == Init /\ [][NextLoop]_vars

\* ---- lookups after an update pass has deleted a list ----

\* What the server of the update passes of SpecTracked may send: it
\* advertises both lists or no longer the one it has full hashes in.
TrackedServer ==
    [ lists |-> { ThreatLists, ThreatLists \ FullHashLists },
      additions |-> { <<Addition(4, P1)>> },
      removals |-> {<<>>},
      checksums |-> { sha256(Join(SortedValues({P1}))) },
      states |-> {"s1"} ]

NextTracked ==
    \/ BeginPass(TRUE)
    \/ DiscoverLists(TrackedServer, TRUE)
    \/ FetchUpdates(TRUE)
    \/ ApplyResponse(TrackedServer, TRUE)
    \/ FinishPass
    \/ Tick
    \/ LookupUrl
    \/ FullHashesReply
    \/ FullHashesError

\* Lookups between update passes of a server that drops a list.
SpecTracked == Init /\ [][NextTracked]_vars

NextSync ==
    \/ BeginPass(TRUE)
    \/ DiscoverLists(SyncServer, TRUE)
    \/ FetchUpdates(TRUE)
    \/ TransportError
    \/ ApplyResponse(SyncServer, TRUE)
    \/ FinishPass
    \/ Crash

\* The update passes of one process after another over one cache file.
SpecSync == Init /\ [][NextSync]_vars

NextLookup ==
    \/ BeginPass(FALSE)
    \/ DiscoverLists(LookupServer, FALSE)
    \/ FetchUpdates(FALSE)
    \/ ApplyResponse(LookupServer, FALSE)
    \/ FinishPass
    \/ Tick
    \/ EmptyInput
    \/ LookupUrl
    \/ FullHashesReply
    \/ FullHashesError

\* Lookups between update passes while time passes.
SpecLookup == Init /\ [][NextLookup]_vars

\* get_full_hashes is a blocking HTTP call: it returns or it raises.
SpecLookupFair ==
    SpecLookup /\ WF_vars(FullHashesReply \/ FullHashesError)



---------------------------------------------------------------------------
(* The update pass: what is checked of it.                                 *)

\* client_state of a list, NULL when the list has no row.
ClientStateOf(d, tl) ==
    IF tl \in DOMAIN d.threat_list THEN d.threat_list[tl] ELSE NULL

Range(s) == { s[i] : i \in 1..Len(s) }

\* An update pass has returned, raised or died, and nothing ran since.
PassEnded ==
    /\ pc = "idle"
    /\ outcome \in {"update:ok", "update:TransportError", "update:IntegrityError",
                    "update:ChecksumMismatch", "update:crash"}

\* Number of responses of the current pass that were committed.
Done == Len(passLists) - Len(pending)

\* The list's client_state and prefixes are those of before the pass.
AsBeforePass(tl) ==
    /\ ClientStateOf(committed, tl) = ClientStateOf(prepass, tl)
    /\ ListValues(committed, tl) = ListValues(prepass, tl)

\* The list holds what the response committed for it delivered.
AsDelivered(tl) ==
    /\ tl \in DOMAIN delivered
    /\ ClientStateOf(committed, tl) = delivered[tl].newClientState
    /\ hash_prefix_list_checksum(committed, tl) = delivered[tl].checksum

ListRows(d, tl) == { r \in d.hash_prefix : r.list = tl }

\* C2: a step of the response loop that ends in the checksum mismatch ends
\* the pass with the error, and leaves the list's client_state and its
\* prefix rows, working and committed, as they were before the response.
C2_MismatchRollsBack ==
    [][ (pc = "apply" /\ outcome' = "update:ChecksumMismatch") =>
          LET tl == Head(pending)
          IN  /\ pc' = "idle"
              /\ ClientStateOf(db', tl) = ClientStateOf(db, tl)
              /\ ClientStateOf(committed', tl) = ClientStateOf(db, tl)
              /\ ListRows(db', tl) = ListRows(db, tl)
              /\ ListRows(committed', tl) = ListRows(db, tl) ]_vars

\* C2's case: the mismatch happened for a list that held prefixes and a
\* client_state.
C2_Witness ==
    /\ outcome = "update:ChecksumMismatch"
    /\ ClientStateOf(db, Head(pending)) # NULL
    /\ ListValues(db, Head(pending)) # {}

\* C3 as claimed: when a pass has ended, either every response was
\* committed or no list of the response differs from before the pass.
C3_AllListsOrNone ==
    PassEnded =>
        \/ pending = <<>>
        \/ \A tl \in Range(passLists) : AsBeforePass(tl)

\* C3 as amended: when a pass has ended, every list of the response either
\* is as it was before the pass, client_state and prefixes both, or holds
\* the client_state and the prefixes of its committed response, both; the
\* lists need not agree.
C3_EachListWhole ==
    PassEnded =>
        \A tl \in Range(passLists) :
            \/ AsBeforePass(tl)
            \/ /\ tl \in Range(SubSeq(passLists, 1, Done))
               /\ AsDelivered(tl)

\* C3's case: a pass ended that left one list advanced and another not.
C3_Witness ==
    /\ PassEnded
    /\ \E a, b \in Range(passLists) :
         /\ ~AsBeforePass(a) /\ AsDelivered(a)
         /\ b \in Range(pending) /\ AsBeforePass(b)

\* C4: when a pass has ended while handling its k-th response (k = Done + 1),
\* the lists of the first k-1 responses hold their new client_state and
\* prefixes, and the lists of the k-th and later ones hold their client_state
\* and prefixes of before the pass.
C4_CommittedInResponseOrder ==
    PassEnded =>
        /\ \A i \in 1..Done : AsDelivered(passLists[i])
        /\ \A i \in (Done + 1)..Len(passLists) : AsBeforePass(passLists[i])

\* C4's case: a pass of two responses failed at the second.
C4_Witness ==
    /\ PassEnded
    /\ outcome # "update:ok"
    /\ Len(passLists) = 2
    /\ Done = 1
    /\ ~AsBeforePass(passLists[1])

\* The prefixes an additions field carries.
RECURSIVE AdditionValues(_)
AdditionValues(additions) ==
    IF additions = <<>> THEN {}
    ELSE Range(HashPrefixList(Head(additions).prefixSize,
                              Head(additions).rawHashes))
         \cup AdditionValues(Tail(additions))

\* C9: once a FULL_UPDATE response is committed, its list holds exactly the
\* prefixes of the response's additions and the response's newClientState.
C9_FullUpdateReplaces ==
    lastFull # <<>> =>
        LET tl == lastFull[1].threatList
        IN  /\ ListValues(committed, tl) = AdditionValues(lastFull[1].additions)
            /\ ListValues(db, tl) = AdditionValues(lastFull[1].additions)
            /\ ClientStateOf(committed, tl) = lastFull[1].newClientState

\* C9's case: the list held, before the pass, a prefix the FULL_UPDATE does
\* not carry.
C9_Witness ==
    /\ lastFull # <<>>
    /\ lastFull[1].additions # <<>>
    /\ ListValues(prepass, lastFull[1].threatList)
         \ AdditionValues(lastFull[1].additions) # {}

\* The advertised lists that pass the platform filter.
Accepted == { tl \in advertised :
                platforms.is_none \/ platform_type(tl) \in platforms.list }

\* C10: right after the list discovery of a pass is committed, the stored
\* lists are the advertised lists that pass the platform filter; a list that
\* was not stored has a null client_state; a list that was stored has its
\* client_state and prefixes of before the pass; no other list has a row.
C10_ListsReconciled ==
    pc = "fetch" =>
        /\ DOMAIN committed.threat_list = Accepted
        /\ \A tl \in Accepted \ DOMAIN prepass.threat_list :
             committed.threat_list[tl] = NULL
        /\ \A tl \in Accepted \cap DOMAIN prepass.threat_list : AsBeforePass(tl)
        /\ \A tl \in ThreatLists \ Accepted : ListRows(committed, tl) = {}

\* C10's case: the discovery deleted a list that held prefixes and kept
\* another with its client_state.
C10_Witness ==
    /\ pc = "fetch"
    /\ \E gone \in DOMAIN prepass.threat_list \ DOMAIN committed.threat_list :
         ListValues(prepass, gone) # {}
    /\ \E kept \in DOMAIN prepass.threat_list \cap DOMAIN committed.threat_list :
         committed.threat_list[kept] # NULL


---------------------------------------------------------------------------
(* The lookup: what is checked of it.                                      *)

\* A step in which lookup_url returns normally.
LookupReturns ==
    /\ pc \in {"idle", "find"}
    /\ pc' = "idle"
    /\ now' = now
    /\ outcome' = "lookup:ok"

\* The text is empty or holds whitespace only.
Blank(text) == \A i \in 1..Len(text) : text[i] \in Whitespace

\* A step in which lookup_url is called.
LookupCalled ==
    /\ pc = "idle"
    /\ pc' \in {"idle", "find"}
    /\ now' = now

\* A step in which lookup_url is called with a URL: it returns at once or
\* goes on to call fullHashes.find.
LookupStarts ==
    /\ LookupCalled
    /\ ~Blank(arg')

\* The lists lookup_url returned.
Lists(result) == { r.list : r \in result }

\* C5: lookup_url reports list L only if, as it returns, the storage holds
\* a full hash row (h, L) that is not expired (not expires_at < now), h is
\* one of the hashes of the URL and some stored prefix is a prefix of h.
C5_PositiveOnlyFromFreshFullHash ==
    [][LookupReturns =>
        \A r \in ret' :
            /\ r.value \in url'
            /\ \E row \in db'.full_hash :
                 /\ row.value = r.value
                 /\ row.list = r.list
                 /\ ~(row.exp < now')
            /\ \E p \in db'.hash_prefix : StartsWith(r.value, p.value)]_vars

\* A lookup answers with a list while the cache also holds an expired row
\* of a hash of the URL, which it does not report.
C5_Witness ==
    /\ pc = "idle"
    /\ outcome = "lookup:ok"
    /\ ret # {}
    /\ \E row \in db.full_hash :
         /\ row.value \in url
         /\ row.exp < now
         /\ [list |-> row.list, value |-> row.value] \notin ret
    /\ \A r \in ret : \E row \in db.full_hash :
         row.value = r.value /\ row.list = r.list /\ ~(row.exp < now)

\* The condition of C6 on storage d, URL hashes u and time t.
MustAsk(d, u, t) ==
    LET stored == { r.value : r \in d.hash_prefix }
        hit == { h \in u : \E p \in stored : StartsWith(h, p) }
        mp == { p \in stored : \E h \in u : StartsWith(h, p) }
    IN  /\ hit # {}
        /\ ~\E row \in d.full_hash : row.value \in hit /\ ~(row.exp < t)
        /\ \/ \E row \in d.full_hash : row.value \in hit /\ row.exp < t
           \/ \E r \in d.hash_prefix : r.value \in mp /\ r.neg < t

\* C6: lookup_url calls fullHashes.find exactly when a stored prefix is a
\* prefix of a hash of the URL, no matching full hash has an unexpired
\* row, and a matching full hash has an expired row or a matched prefix
\* has an expired negative cache in at least one list; otherwise it
\* answers from the storage without a call.
C6_AsksExactlyWhenNeeded ==
    [][LookupStarts =>
        /\ (pc' = "find") <=> MustAsk(db, url', now)
        /\ pc' = "find" => calls' = 1
        /\ pc' = "idle" => (calls' = 0 /\ outcome' = "lookup:ok" /\ db' = db)]_vars

\* The call is made for a prefix whose negative cache has expired in one
\* list and not in another, with no full hash row of the URL stored.
C6_Witness ==
    /\ pc = "find"
    /\ calls = 1
    /\ ~\E row \in db.full_hash : row.value \in url
    /\ \E r1, r2 \in db.hash_prefix :
         /\ r1.value = r2.value
         /\ \E h \in url : StartsWith(h, r1.value)
         /\ r1.neg < now
         /\ ~(r2.neg < now)

\* C7: a lookup_url that calls fullHashes.find calls it once and then
\* ends, by returning or by raising, whatever the reply.
C7_OneCallThenEnds ==
    /\ [](calls <= 1)
    /\ [][pc = "find" /\ now' = now => pc' = "idle"]_vars
    /\ [](pc = "find" => <>(pc = "idle"))

\* A lookup has ended after a reply that left it nothing to report.
C7_Witness ==
    /\ pc = "idle"
    /\ calls = 1
    /\ outcome = "lookup:ok"
    /\ ret = {}
    /\ matched.prefixes # {}

\* The first half of C8 as a state: the lookup that got the reply has ended
\* normally and reports every list of owed.
MatchReturned ==
    (/\ pc = "idle"
     /\ calls = 1
     /\ outcome \in {"lookup:ok", "lookup:ValueError"}
     /\ \E row \in matched.prefixes : row[2])
        => (outcome = "lookup:ok" /\ owed \subseteq Lists(ret))

\* The second half of C8 as a step: the next lookup of the same URL, while
\* a row the first one reported has not expired, reports its list again
\* and makes no call.
MatchCached ==
    (/\ LookupStarts
     /\ outcome = "lookup:ok"
     /\ calls = 1
     /\ url' = url)
        => \A r \in ret :
             (/\ r.list \in owed
              /\ \E row \in db.full_hash :
                   row.value = r.value /\ row.list = r.list /\ ~(row.exp < now))
                => (/\ pc' = "idle"
                    /\ calls' = 0
                    /\ outcome' = "lookup:ok"
                    /\ r.list \in Lists(ret'))

\* C8: when a lookup asks the server for a prefix whose negative cache has
\* expired and the reply holds a match for a hash of the URL in list L
\* with cacheDuration > 0, the lookup returns L, and the next lookup of
\* the URL before the row expires returns L without a call.
C8_MatchReturnedAndCached ==
    []MatchReturned /\ [][MatchCached]_vars

\* C8 for replies whose durations are whole numbers of seconds.
C8_WholeSeconds ==
    [](outcome # "lookup:ValueError" => MatchReturned) /\ [][MatchCached]_vars

\* A second lookup answers from the cache what the first one fetched.
C8_Witness ==
    /\ pc = "idle"
    /\ calls = 0
    /\ outcome = "lookup:ok"
    /\ owed # {}
    /\ owed \subseteq Lists(ret)


---------------------------------------------------------------------------
(* The API client: what is checked of it.                                  *)

C12_TransientNeverRaised ==
    (lastCall # <<>> /\ lastCall[1].status \in {"503", "URLError"}) =>
        outcome \notin {"update:HTTPError", "update:URLError",
                        "lookup:HTTPError", "lookup:URLError"}

Pow2(n) == 2 ^ n

\* C13: with throttling on, the call made after N >= 1 consecutive HTTP 5xx
\* replies is delayed by at least min(2^(N-1) * 15 min, 24 h), by less than
\* 2^(N-1) * 30 min and by no more than 24 h.
C13_BackoffSchedule ==
    (/\ lastCall # <<>>
     /\ ~discard_fair_use_policy
     /\ lastCall[1].after = "503") =>
        LET N == lastCall[1].streak
            delay == lastCall[1].slept
        IN  /\ delay >= Min(Pow2(N - 1) * 900, 86400)
            /\ delay < Pow2(N - 1) * 1800
            /\ delay <= 86400

---------------------------------------------------------------------------
(* Opening the cache: what is checked of it.                               *)

\* C16: the constructor of the storage, given a stored cache whose schema
\* version is not the library's or cannot be read, returns with an empty
\* cache of the library's version; given a cache of the library's version,
\* it returns with the contents as they were.
C16_OpenReinitializesOnMismatch ==
    outcome \in {"open:ok", "open:IndexError", "open:Exception"} =>
        LET found == opened[1]
        IN  /\ outcome = "open:ok"
            /\ schema = schema_version
            /\ IF found.schema = schema_version
               THEN committed = found.d
               ELSE committed = EmptyDb /\ db = EmptyDb

\* C14: lookup_url called with an empty or whitespace-only string raises
\* ValueError without reading the storage for the URL and without a remote
\* call, and leaves the storage, working and committed, as it was.
C14_EmptyInputRaises ==
    [][(LookupCalled /\ Blank(arg')) =>
        /\ outcome' = "lookup:ValueError"
        /\ pc' = "idle"
        /\ calls' = 0
        /\ matched' = NoMatching
        /\ ret' = {}
        /\ db' = db
        /\ committed' = committed]_vars

\* A whitespace-only string was looked up over a cache that holds a prefix.
C14_Witness ==
    /\ pc = "idle"
    /\ outcome = "lookup:ValueError"
    /\ calls = 0
    /\ arg # <<>>
    /\ Blank(arg)
    /\ db.hash_prefix # {}

\* C15: the result of lookup_url holds each threat list at most once.  The
\* result has one entry for each row of ret, the entry being the row's list.
C15_EachListOnce ==
    \A a, b \in ret : a.list = b.list => a = b


\* C17: canonicalization is idempotent: the canonical form of a canonical
\* URL is that URL again.
C17_CanonicalIdempotent ==
    pc = "recanonical" => again = canon

\* The elements of s in the order of their first occurrence.
RECURSIVE Dedup(_)
Dedup(s) ==
    IF s = <<>> THEN <<>>
    ELSE LET front == Dedup(SubSeq(s, 1, Len(s) - 1))
         IN  IF \E i \in 1..Len(front) : front[i] = s[Len(s)] THEN front
             ELSE Append(front, s[Len(s)])

\* The host variants of C18: the host, then its suffixes of min(5, n)
\* components down to 2; the host alone when it is a dotted-quad address.
C18_HostSuffixes(host) ==
    LET parts == Split(host, 46)
        n == Len(parts)
        l == IF n < 5 THEN n ELSE 5
    IN  IF n = 4 /\ \A k \in 1..4 : isdigit(parts[k]) THEN <<host>>
        ELSE <<host>>
             \o [i \in 1..(l - 1) |-> JoinWith(SubSeq(parts, n - l + i, n), 46)]

\* The path variants of C18: the path with its query, the path without it
\* when there is a query, then '/' and the directory prefixes, four at most.
C18_PathPrefixes(path, query) ==
    LET pieces == Split(path, 47)
        dirs == SubSeq(pieces, 1, Len(pieces) - 1)
        count == IF Len(dirs) < 4 THEN Len(dirs) ELSE 4
    IN  (IF query = None THEN <<path>> ELSE <<path \o <<63>> \o query, path>>)
        \o [i \in 1..count |-> JoinWith(SubSeq(dirs, 1, i), 47) \o <<47>>]

\* C18: url_permutations yields, host by host, every host variant followed
\* by every path variant, duplicates aside, and at most 30 strings.
C18_HostMajorCombinations ==
    pc = "hashes" =>
        LET hosts == C18_HostSuffixes(canon.host)
            paths == C18_PathPrefixes(canon.path, canon.query)
            P == Len(paths)
            expected == [k \in 1..(Len(hosts) * P) |->
                            hosts[((k - 1) \div P) + 1]
                            \o paths[((k - 1) % P) + 1]]
        IN  /\ Dedup(perms) = Dedup(expected)
            /\ Len(perms) <= 30

\* C19: the sequence url_permutations returns holds no string twice.
C19_NoDuplicates ==
    pc = "hashes" =>
        \A i, j \in 1..Len(perms) : perms[i] = perms[j] => i = j

\* Every byte of s is printable ASCII other than '#', and every '%' of s
\* starts the uppercase-hex escape of '%', of '#' or of a byte that is not
\* printable ASCII.
C20_EscapedOnce(s) ==
    \A i \in 1..Len(s) :
        /\ s[i] \in 33..126
        /\ s[i] # 35
        /\ s[i] = 37 =>
             /\ i + 2 <= Len(s)
             /\ \A k \in {i + 1, i + 2} : s[k] \in (48..57) \cup (65..70)
             /\ LET value(c) == IF c <= 57 THEN c - 48 ELSE c - 55
                    byte == 16 * value(s[i + 1]) + value(s[i + 2])
                IN  byte \notin 33..126 \/ byte \in {35, 37}

\* C20: the canonical host and path are escaped exactly once, whatever the
\* depth of the escaping of the text: the same text escaped once more has
\* the same canonical form, and /%25%32%35 and /%2525252525252525 both
\* become /%25.
C20_UnescapeToFixpointThenEscape ==
    /\ (pc \in {"canonical", "escaped", "recanonical", "hashes"}
        /\ canon.error = "") =>
            /\ C20_EscapedOnce(canon.host)
            /\ C20_EscapedOnce(canon.path)
            /\ given \in { Str(<<"h", "t", "t", "p", ":", "/", "/", "a", ".",
                                 "b", "/", "%", "2", "5", "%", "3", "2", "%",
                                 "3", "5">>),
                           Str(<<"h", "t", "t", "p", ":", "/", "/", "a", ".",
                                 "b", "/", "%", "2", "5", "2", "5", "2", "5",
                                 "2", "5", "2", "5", "2", "5", "2", "5", "2",
                                 "5">>) } =>
                 canon.url = Str(<<"h", "t", "t", "p", ":", "/", "/", "a",
                                   ".", "b", "/", "%", "2", "5">>)
    /\ pc = "escaped" => deeper = canon

\* The URL of the path /%2525252525252525 and the same URL escaped once
\* more were both made canonical.
C20_Witness ==
    /\ pc = "escaped"
    /\ given = Str(<<"h", "t", "t", "p", ":", "/", "/", "a", ".", "b", "/",
                     "%", "2", "5", "2", "5", "2", "5", "2", "5", "2", "5",
                     "2", "5", "2", "5", "2", "5">>)
    /\ canon.error = ""
    /\ canon.path = Str(<<"/", "%", "2", "5">>)
    /\ deeper = canon

\* s begins with the characters of prefix.
BeginsWith(s, prefix) ==
    Len(s) >= Len(prefix) /\ SubSeq(s, 1, Len(prefix)) = prefix

\* The text has the two slashes of a scheme somewhere.
C21_HasScheme(text) ==
    \E i \in 2..(Len(text) - 2) :
        text[i] = 58 /\ text[i + 1] = 47 /\ text[i + 2] = 47

\* The text after its leading '//', if it has one.
C21_Address(text) ==
    IF BeginsWith(text, <<47, 47>>) THEN SubSeq(text, 3, Len(text)) ELSE text

\* C21: a text without a scheme (host, host/path, host:port/path, //host...)
\* has the canonical form of the same text after 'http://', whenever that one
\* has a canonical form; a text with the scheme http or ftp keeps its
\* scheme, and the port of a.b:80 is kept.
C21_SchemeDefaultsToHttp ==
    pc = "canonical" =>
        /\ ~C21_HasScheme(given) =>
              LET http == canonical(<<104, 116, 116, 112, 58, 47, 47>>
                                    \o C21_Address(given))
              IN  http.error = "" => canon = http
        /\ \A scheme \in { <<104, 116, 116, 112, 58, 47, 47>>,
                            <<102, 116, 112, 58, 47, 47>> } :
              BeginsWith(given, scheme) /\ canon.error = "" =>
                  /\ BeginsWith(canon.url, scheme)
                  /\ BeginsWith(given, scheme \o <<97, 46, 98, 58, 56, 48>>)
                       => BeginsWith(canon.url,
                                     scheme \o <<97, 46, 98, 58, 56, 48, 47>>)

\* The host of a text that begins with http://: what stands before the
\* first '/' or '?' after it.
C22_Host(text) ==
    LET rest == SubSeq(text, 8, Len(text))
        ends == { i \in 1..Len(rest) : rest[i] \in {47, 63} }
    IN  IF ends = {} THEN rest
        ELSE SubSeq(rest, 1, (CHOOSE i \in ends : \A j \in ends : i <= j) - 1)

\* The value of a digit of base 10 or 16; 16 for any other character.
C22_Digit(c) ==
    IF c \in 48..57 THEN c - 48 ELSE IF c \in 97..102 THEN c - 87 ELSE 16

\* The number the digits write in the base, as hi * 2^16 + lo; over when a
\* character is no digit of the base or the number is 2^32 or more.
RECURSIVE C22_Number(_, _)
C22_Number(digits, base) ==
    IF digits = <<>> THEN [hi |-> 0, lo |-> 0, over |-> FALSE]
    ELSE LET front == C22_Number(SubSeq(digits, 1, Len(digits) - 1), base)
             digit == C22_Digit(digits[Len(digits)])
             lo == front.lo * base + digit
             hi == front.hi * base + (lo \div 65536)
         IN  [hi |-> hi % 65536, lo |-> lo % 65536,
              over |-> front.over \/ digit >= base \/ hi >= 65536]

\* A byte in decimal.
C22_Decimal(n) ==
    (IF n >= 100 THEN <<48 + (n \div 100)>> ELSE <<>>)
    \o (IF n >= 10 THEN <<48 + ((n \div 10) % 10)>> ELSE <<>>)
    \o <<48 + (n % 10)>>

\* The dotted quad a.b.c.d of hi * 2^16 + lo = a*2^24 + b*2^16 + c*2^8 + d.
C22_Quad(n) ==
    C22_Decimal(n.hi \div 256) \o <<46>> \o C22_Decimal(n.hi % 256) \o <<46>>
    \o C22_Decimal(n.lo \div 256) \o <<46>> \o C22_Decimal(n.lo % 256)

\* C22: a host that is a decimal integer (written without a leading zero)
\* or 0x and hexadecimal digits becomes the dotted quad of its value when
\* the value is below 2^32; otherwise the host is kept and canonicalization
\* does not fail.
C22_IntegerHostsBecomeDottedQuads ==
    (pc = "canonical" /\ BeginsWith(given, <<104, 116, 116, 112, 58, 47, 47>>))
    => LET host == C22_Host(given)
           hex == BeginsWith(host, <<48, 120>>) /\ Len(host) > 2
           decimal == /\ host # <<>>
                      /\ \A k \in 1..Len(host) : host[k] \in 48..57
                      /\ host[1] # 48
           n == IF hex THEN C22_Number(SubSeq(host, 3, Len(host)), 16)
                ELSE C22_Number(host, 10)
       IN  (hex \/ decimal) =>
               /\ canon.error = ""
               /\ canon.host = IF n.over THEN host ELSE C22_Quad(n)

\* The original statement of C23: the canonical URL has a '?' exactly when
\* the text has one.
C23_QueryIffQuestionMark ==
    (pc = "canonical" /\ canon.error = "") =>
        ((\E i \in 1..Len(canon.url) : canon.url[i] = 63)
         <=> (\E i \in 1..Len(given) : given[i] = 63))

\* One pass of percent-unescaping.
RECURSIVE C23_Unescape(_)
C23_Unescape(s) ==
    LET value(c) == IF c \in 48..57 THEN c - 48
                    ELSE IF c \in 65..70 THEN c - 55 ELSE c - 87
        hex == (48..57) \cup (65..70) \cup (97..102)
    IN  IF s = <<>> THEN <<>>
        ELSE IF s[1] = 37 /\ Len(s) >= 3 /\ s[2] \in hex /\ s[3] \in hex
        THEN <<16 * value(s[2]) + value(s[3])>>
             \o C23_Unescape(SubSeq(s, 4, Len(s)))
        ELSE <<s[1]>> \o C23_Unescape(Tail(s))

\* The text is, at some depth of percent-escaping, a text with a '?'.
RECURSIVE C23_HasQuestionMark(_)
C23_HasQuestionMark(s) ==
    \/ \E i \in 1..Len(s) : s[i] = 63
    \/ C23_Unescape(s) # s /\ C23_HasQuestionMark(C23_Unescape(s))

\* The text before its first '#', without its tabs, carriage returns and
\* line feeds.
C23_BeforeFragment(s) ==
    LET before ==
            IF \E i \in 1..Len(s) : s[i] = 35
            THEN SubSeq(s, 1, (CHOOSE i \in 1..Len(s) :
                     s[i] = 35 /\ \A j \in 1..(i - 1) : s[j] # 35) - 1)
            ELSE s
    IN  SelectSeq(before, LAMBDA c : c \notin {9, 10, 13})

\* C23, amended: the canonical URL has a '?' exactly when the text before
\* its fragment (tabs, carriage returns and line feeds deleted) has one,
\* written as it is or percent-escaped; also when nothing follows the '?'.
C23_QueryIffQuestionMarkBeforeFragment ==
    (pc = "canonical" /\ canon.error = "") =>
        ((\E i \in 1..Len(canon.url) : canon.url[i] = 63)
         <=> C23_HasQuestionMark(C23_BeforeFragment(given)))

\* The URL http://a.b/x? was made canonical, its empty query kept.
C23_Witness ==
    /\ pc = "canonical"
    /\ given = Str(<<"h", "t", "t", "p", ":", "/", "/", "a", ".", "b", "/",
                     "x", "?">>)
    /\ canon.url = given

\* C24: a committed PARTIAL_UPDATE response leaves its list with the
\* prefixes it had, less those at the positions of all removal entries
\* taken together in the sorted order of before the response, plus the
\* additions.
C24_RemovalsAddressInitialList ==
    [][(pc = "apply" /\ pending # <<>> /\ pc' = "apply"
        /\ pending' = Tail(pending)) =>
        \A response \in Responses(Head(pending), SyncServer) :
            (/\ response.responseType = "PARTIAL_UPDATE"
             /\ sync_response(db, response, now) = [d |-> db', error |-> ""]
             /\ lastFull' = <<>>
             /\ delivered'[Head(pending)] =
                    [checksum |-> response.checksum,
                     newClientState |-> response.newClientState])
            => LET tl == Head(pending)
                   sorted == SortedValues(ListValues(db, tl))
                   indices == UNION Range(response.removals)
                   removed == { sorted[i] : i \in { j \in 1..Len(sorted) :
                                                       (j - 1) \in indices } }
               IN  ListValues(db', tl) =
                       (ListValues(db, tl) \ removed)
                       \cup AdditionValues(response.additions)]_vars

\* The 0-based position of value v among the prefixes of list tl in d.
C25_Position(d, tl, v) ==
    Cardinality({ w \in ListValues(d, tl) : LexLess(w, v) })

\* C25: a committed PARTIAL_UPDATE response with one removal entry and no
\* additions, that is one call of remove_hash_prefix_indices, deletes the
\* rows of its list whose prefix stands at one of the given positions of
\* the list's sorted prefixes, and leaves every other row as it was, the
\* rows of other lists with an equal prefix included.
C25_RemovesExactlyThePositions ==
    [][(pc = "apply" /\ pending # <<>> /\ pc' = "apply"
        /\ pending' = Tail(pending)) =>
        \A response \in Responses(Head(pending), SyncServer) :
            (/\ response.responseType = "PARTIAL_UPDATE"
             /\ Len(response.removals) = 1
             /\ response.additions = <<>>
             /\ sync_response(db, response, now) = [d |-> db', error |-> ""]
             /\ lastFull' = <<>>
             /\ delivered'[Head(pending)] =
                    [checksum |-> response.checksum,
                     newClientState |-> response.newClientState])
            => db'.hash_prefix =
                 { r \in db.hash_prefix :
                     ~(/\ r.list = Head(pending)
                       /\ C25_Position(db, Head(pending), r.value)
                              \in response.removals[1]) }]_vars

\* The one response of the pass was a PARTIAL_UPDATE that removed P2 from
\* a list that held P1 and P2, while another list holds P2 as well.
C25_Witness ==
    /\ pc = "apply"
    /\ pending = <<>>
    /\ lastFull = <<>>
    /\ Len(passLists) = 1
    /\ ListValues(prepass, passLists[1]) = {P1, P2}
    /\ ListValues(db, passLists[1]) = {P1}
    /\ \E other \in DOMAIN db.threat_list \ {passLists[1]} :
          P2 \in ListValues(db, other)

\* C26: every row of hash_prefix is of a list that has a row in
\* threat_list, and after delete_threat_list of a list no row of
\* hash_prefix is of that list.
C26_PrefixRowsHaveAList ==
    /\ \A r \in db.hash_prefix : r.list \in DOMAIN db.threat_list
    /\ (called # <<>> /\ called[1].op = "delete_threat_list")
          => \A r \in db.hash_prefix : r.list # called[1].list

\* C27: no two rows of hash_prefix have the same list and the same value,
\* whatever prefixes were given to populate_hash_prefix_list.
C27_ValuesDistinctWithinList ==
    \A r1 \in db.hash_prefix : \A r2 \in db.hash_prefix :
        (r1.list = r2.list /\ r1.value = r2.value) => r1 = r2

\* populate_hash_prefix_list was given a prefix the list held from an
\* earlier second on and raised IntegrityError.
C27_Witness ==
    /\ called # <<>>
    /\ called[1].op = "populate_hash_prefix_list"
    /\ called[1].error = "IntegrityError"
    /\ \E r \in db.hash_prefix :
          /\ r.list = called[1].list
          /\ r.value = Head(called[1].values)
          /\ r.neg < called[1].at

\* C28: while no full-hash sync has touched the rows (none is made when
\* the storage operations are called one by one), lookup_hash_prefix
\* reports every stored prefix as expired, and a lookup of a URL that
\* matches a stored prefix and no stored full hash is not answered from
\* the storage.
C28_InsertedPrefixesAreExpired ==
    /\ \A r \in db.hash_prefix :
          <<r.value, TRUE>> \in lookup_hash_prefix(db, {Cue(r.value)}, now)
    /\ \A u \in UrlPool :
          (/\ matching(db, u, now).prefixes # {}
           /\ lookup_full_hashes(db, u, now) = {})
          => ~lookup_local(db, u, now).answered

\* C29: when the full-hash sync of a lookup returns, every row of
\* hash_prefix whose value was asked for, of whatever list, expires at
\* now + negativeCacheDuration, matched or not, and every other row of
\* hash_prefix is as it was.
C29_QueriedPrefixesExtended ==
    [][(pc = "find" /\ pc' = "idle" /\ outcome' = "lookup:ok") =>
        LET hash_prefixes == { row[1] : row \in matched.prefixes }
        IN  \A fh_response \in FullHashResponses(hash_prefixes) :
                sync_full_hashes(db, hash_prefixes, fh_response, now)
                    = [d |-> db', error |-> ""]
                => db'.hash_prefix =
                     { IF r.value \in hash_prefixes
                       THEN [r EXCEPT !.neg = now +
                                fh_response.negativeCacheDuration.secs]
                       ELSE r : r \in db.hash_prefix }]_vars

\* A lookup has fetched full hashes for P1, stored in two lists, and got
\* no match: both rows expire a second from now, the row of H2, which
\* was not asked for, has expired.
C29_Witness ==
    /\ pc = "idle"
    /\ outcome = "lookup:ok"
    /\ calls = 1
    /\ db.full_hash = {}
    /\ \A tl \in ThreatLists :
          [value |-> P1, list |-> tl, neg |-> now + 1] \in db.hash_prefix
    /\ \E r \in db.hash_prefix : r.value = H2 /\ r.neg < now

\* C30: full_hash never holds two rows of one value and list, and after
\* store_full_hash the row of its value and list expires cache_duration
\* seconds after the call, whether or not the row was there before.
C30_StoreFullHashUpserts ==
    /\ \A r1 \in db.full_hash : \A r2 \in db.full_hash :
          (r1.value = r2.value /\ r1.list = r2.list) => r1 = r2
    /\ (called # <<>> /\ called[1].op = "store_full_hash")
          => \E r \in db.full_hash :
                /\ r.value = Head(called[1].values)
                /\ r.list = called[1].list
                /\ r.exp = called[1].at + called[1].duration

\* store_full_hash was called for a value and list whose committed row
\* had expired, and the row expires a second after the call.
C30_Witness ==
    /\ called # <<>>
    /\ called[1].op = "store_full_hash"
    /\ called[1].duration = 1
    /\ \E c \in committed.full_hash :
          /\ c.value = Head(called[1].values)
          /\ c.list = called[1].list
          /\ c.exp < called[1].at
    /\ [value |-> Head(called[1].values), list |-> called[1].list,
        exp |-> called[1].at + 1] \in db.full_hash

\* The rows of full_hash that had not been expired for longer than the
\* grace period at second t.
C31_Kept(rows, t) == { r \in rows : ~(t - r.exp > 12 * 60 * 60) }

\* C31: the first step of a pass deletes the full hashes expired for
\* longer than 12 hours, keeps the others and commits; whatever the pass
\* does after that, and however it ends, these are the committed full
\* hashes.
C31_PurgeCommittedFirst ==
    [][/\ (pc = "idle" /\ pc' = "discover") =>
            /\ committed'.full_hash = C31_Kept(committed.full_hash, now)
            /\ db'.full_hash = committed'.full_hash
       /\ (pc \in {"discover", "fetch", "apply"}) =>
            /\ committed'.full_hash = C31_Kept(prepass.full_hash, now)
            /\ db'.full_hash = committed'.full_hash]_vars

\* A pass has purged one full hash, kept one expired for less than the
\* grace period, and then failed.
C31_Witness ==
    /\ pc = "idle"
    /\ outcome \in {"update:TransportError", "update:ChecksumMismatch"}
    /\ \E r \in prepass.full_hash : r \notin committed.full_hash
    /\ \E r \in committed.full_hash : r.exp < now
    /\ db = committed

\* C32: a client made with discard_fair_use_policy sends its request
\* without a sleep and without an error of fair_use_delay, whatever the
\* delay; a client made without it sleeps for the delay when the delay
\* is positive.
C32_OptOutSkipsTheSleep ==
    lastCall # <<>> =>
        /\ discard_fair_use_policy =>
              (lastCall[1].slept = 0 /\ lastCall[1].raised # "AttributeError")
        /\ (~discard_fair_use_policy /\ lastCall[1].delay > 0) =>
              (/\ lastCall[1].slept = lastCall[1].delay
               /\ lastCall[1].raised # "AttributeError")

\* C33: a call answered with a response that carries no minimum wait
\* raises nothing, and after it no instant in the future is recorded
\* before which the next call must not be made.
C33_NoWaitClearsTheGate ==
    (/\ lastCall # <<>>
     /\ lastCall[1].type \in CallTypes
     /\ lastCall[1].status = "200"
     /\ lastCall[1].wait = <<>>) =>
        /\ lastCall[1].raised = ""
        /\ next_call_timestamp <= lastCall[1].at

\* C34: a KeyboardInterrupt inside an update pass leaves the working
\* state rolled back to the committed one, and the commit of the next
\* pass on the same storage object commits no change to the lists and
\* their prefixes.
C34_InterruptRollsBack ==
    [][/\ (outcome' = "update:KeyboardInterrupt") => db' = committed'
       /\ (/\ outcome = "update:KeyboardInterrupt"
           /\ pc = "idle" /\ pc' = "discover") =>
            /\ committed'.hash_prefix = committed.hash_prefix
            /\ committed'.threat_list = committed.threat_list]_vars

\* C35: the reads of one lookup_url reflect one committed state of the
\* Storage, whatever another process commits between them: the rows its
\* calls of lookup_full_hashes returned are those of the full_hash table of
\* one state of the file, the lookup's own writes aside.
C35_TableRead(rec, table) ==
    LET s == [rec.file EXCEPT !.full_hash = table]
    IN  lookup_full_hashes(
            IF rec.own = <<>> THEN s
            ELSE sync_full_hashes(s, { row[1] : row \in rec.m.prefixes },
                                  rec.own[1], now).d,
            rec.m.full_hashes, now)

C35_LookupReadsOneSnapshot ==
    LET reads == { k \in 1..Len(seen) : seen[k].read = "lookup_full_hashes" }
    IN  reads # {} =>
          \E j \in reads : \A k \in reads :
             seen[k].rows = C35_TableRead(seen[k], seen[j].file.full_hash)

\* C36: in the sync loop a pass that failed with an error other than an
\* interruption is followed by a sleep of 3 seconds and then by the next
\* pass, and nothing but an interruption ends the loop: the only step
\* after such a failure is the sleep, the only step after the sleep is the
\* beginning of a pass, both can be taken, and the loop exits only after a
\* KeyboardInterrupt or SystemExit.
C36_Failed ==
    /\ pc = "idle"
    /\ outcome \in {"update:TransportError", "update:ChecksumMismatch",
                    "update:IntegrityError"}

C36_FailedPassIsRetriedAfterSleep ==
    [][/\ C36_Failed =>
            /\ now' = now + 3
            /\ outcome' = "run_sync:slept"
            /\ pc' = "idle" /\ db' = db /\ committed' = committed
       /\ outcome = "run_sync:slept" =>
            (pc = "idle" /\ pc' = "discover" /\ now' = now)
       /\ outcome' = "exit" => outcome = "update:KeyboardInterrupt"
       /\ pc = "idle" /\ pc' = "discover" => outcome # "exit"
       /\ C36_Failed' /\ now' + 3 <= 3 * MaxTime => (ENABLED RunSyncSleeps)'
       /\ outcome' = "run_sync:slept" => (ENABLED RunSync)']_vars

C36_Witness ==
    /\ pc = "discover"
    /\ now = 3
    /\ committed.threat_list = <<>>

\* C37: a lookup_url call that makes no remote call leaves the Storage as
\* it was: the threat lists with their client states, the hash prefixes
\* with their negative-cache expiry and the full hashes with their expiry
\* are the same before and after the call, in the working state and in the
\* committed one, and the call leaves nothing uncommitted.
C37_LocalLookupLeavesStorage ==
    [][(LookupCalled /\ pc' = "idle") =>
          /\ db' = db
          /\ committed' = committed
          /\ committed' = db']_vars

C37_Witness ==
    /\ pc = "idle"
    /\ outcome = "lookup:ok"
    /\ calls = 0
    /\ ret # {}
    /\ db.hash_prefix # {}
    /\ db.threat_list # <<>>

\* C38: lookup_url reports only lists the Storage tracks: a list that was
\* tracked when the last update pass began and that the pass has deleted
\* is in no result of a later lookup_url.
C38_DeletedListNotReported ==
    [][LookupReturns =>
        \A r \in ret' :
            r.list \in DOMAIN prepass'.threat_list
                => r.list \in DOMAIN db'.threat_list]_vars

\* C39: for every canonical URL url_permutations yields at least one
\* string, and the full host followed by the full path with its query is
\* among the strings, so the hashes of a URL are never empty, for a host
\* of a single label as for any other.
C39_ExactUrlAmongPermutations ==
    pc = "hashes" =>
        /\ perms # <<>>
        /\ \E i \in 1..Len(perms) :
             perms[i] = canon.host
                        \o (IF canon.query = None THEN canon.path
                            ELSE canon.path \o <<63>> \o canon.query)

\* C40: SqliteStorage and MySQLStorage answer the same operation with the
\* same arguments in the same way: whenever remove_hash_prefix_indices is
\* called on a SqliteStorage, indices at or beyond the length of the list
\* included, MySQLStorage in the same state raises in the same cases and
\* ends with the same rows.
C40_BackendsAgreeOnRemoval ==
    [][(called' # called /\ called'[1].op = "remove_hash_prefix_indices") =>
          MySQLStorage_remove_hash_prefix_indices(
              db, called'[1].list, called'[1].indices)
            = [d |-> db', error |-> called'[1].error]]_vars


====
